---- MODULE Spec2Model ----
(***************************************************************************)
(* Model of KeithleySMUController (SMU_APP.py): the session lifecycle, the  *)
(* arming sequence and the four measurement protocols, each run on its own  *)
(* background thread against one shared instrument handle and one shared    *)
(* measurement_running flag.                                                *)
(*                                                                          *)
(* Voltages are integers in units of 1/12 V, currents in pA.                *)
(***************************************************************************)
EXTENDS Integers, Sequences, FiniteSets, TLC

\* ------------------------------------------------------------------ bounds
MaxStarts == 1
MaxConcStarts == 2
MaxConnects == 1
MaxPoints == 2
MaxCycles == 2
MaxStopTimers == 1
MaxFaults == 1
MaxFields == 5

\* ------------------------------------------------------- program constants
CycleLimit == 100000
VoltLimit == 20
RangeFloor == 1000
Threshold == 1

\* --------------------------------------------------------------- inputs
Volt(v) == 12 * v

SweepStart == Volt(0)
SweepStop == Volt(5)
Vpos == Volt(2)
Vneg == Volt(-2)
Vread == Volt(1)
RetVset == Volt(2)
RetVreset == Volt(-2)

IdnStrings == { {"keithley", "2400"}, {"keithley", "2636"}, {"agilent"} }

\* Start requests: the accepted ones vary one parameter of a base request
\* over its range, the rejected ones break one parameter of it.
SweepBase ==
  [source_type |-> "Voltage", points |-> 1, compliance |-> 10,
   current_range |-> "AUTO", delay |-> 0]

SweepInputs ==
  { [SweepBase EXCEPT !.points = n] : n \in 0..MaxPoints }
  \cup { [SweepBase EXCEPT !.current_range = "0.001"],
         [SweepBase EXCEPT !.source_type = "Current"],
         [SweepBase EXCEPT !.compliance = 0],
         [SweepBase EXCEPT !.delay = -1] }

LoopBase ==
  [points |-> 1, cycles |-> 1, compliance |-> 10, current_range |-> "AUTO",
   delay |-> 0]

LoopInputs ==
  { [LoopBase EXCEPT !.points = n] : n \in 0..MaxPoints }
  \cup { [LoopBase EXCEPT !.cycles = n] : n \in 0..MaxCycles }
  \cup { [LoopBase EXCEPT !.current_range = "0.001"],
         [LoopBase EXCEPT !.compliance = 0],
         [LoopBase EXCEPT !.delay = -1] }

RetentionBase == [compliance |-> 10, duration |-> 2, interval |-> 1]

RetentionInputs ==
  { [RetentionBase EXCEPT !.duration = d] : d \in {0, 2, 3, 4} }
  \cup { [RetentionBase EXCEPT !.interval = d] : d \in {-1, 0, 1, 3} }
  \cup { [RetentionBase EXCEPT !.compliance = 0] }

EnduranceBase ==
  [vset |-> Volt(2), vreset |-> Volt(-2), compliance |-> 10, cycles |-> 1,
   pulse_width |-> 1]

EnduranceInputs ==
  { [EnduranceBase EXCEPT !.cycles = n] : n \in (0..MaxCycles) \cup {CycleLimit + 1} }
  \cup { [EnduranceBase EXCEPT !.pulse_width = d] : d \in {-1, 0, 1} }
  \cup { [EnduranceBase EXCEPT !.vset = Volt(21)],
         [EnduranceBase EXCEPT !.vset = Volt(-21)],
         [EnduranceBase EXCEPT !.vreset = Volt(-21)],
         [EnduranceBase EXCEPT !.compliance = 0] }

\* Replies of the instrument to :READ?, as comma-separated fields; a field
\* is a numeric text N(x) or a text float() rejects, NaN.
N(x) == [num |-> TRUE, val |-> x]
NaN == [num |-> FALSE, val |-> 0]
Replies == { <<N(12), N(5)>>, <<NaN>> }

\* ---------------------------------------------------------------- state
VARIABLES
  smu,                  \* "none" | "open"
  connected,
  measurement_running,
  data_points,
  series_2400,
  series_2600,
  data_format_set,
  model,                \* self.model: the identity string, as the set of
                        \* the tokens it contains
  reading,              \* the reply handed to _safe_parse_reading, as fields
  parsed,               \* <<>>, or the outcome of _safe_parse_reading
  dc_output_btn,        \* text of the output button of the DC bias tab
  data_tree,            \* <<>>, or the row measure_resistance inserted last
  res_wire_mode,        \* the wire mode combobox of the Resistance tab
  res_current,          \* the test current entry of the Resistance tab, in pA
  start_btn,            \* kind -> enabled
  stop_btn,             \* kind -> enabled
  connect_btn,
  disconnect_btn,
  status_var,
  dialog,               \* message box shown by the last foreground handler:
                        \* its title, or the text of a Parameter Error box
  fgpc,                 \* position of the foreground path
  fgcmds,               \* commands issued by the current/last foreground handler
  afterq,               \* callbacks queued with root.after(0, ...)
  stopTimers,           \* pending root.after(100, _finalize_stop) timers
  faultsLeft,           \* transport errors and bad replies still to come
  startsLeft,             \* start requests still to be made
  connectsLeft,         \* successful connects still to come
  threads               \* background threads, in start order

vars == <<smu, connected, measurement_running, data_points, series_2400,
          series_2600, data_format_set, model, reading, parsed,
          dc_output_btn, data_tree, res_wire_mode, res_current, start_btn, stop_btn, connect_btn,
          disconnect_btn, status_var, dialog, fgpc, fgcmds, afterq,
          stopTimers, faultsLeft, startsLeft, connectsLeft, threads>>

\* The reply under parse is local to _safe_parse_reading: no handler and no
\* run keeps it.
parseVars == <<reading, parsed>>
sessVars == <<series_2400, series_2600, data_format_set, model, parseVars>>
resVars == <<data_tree, res_wire_mode, res_current>>
btnVars == <<start_btn, stop_btn, connect_btn, disconnect_btn, dc_output_btn>>

Kinds == {"Sweep", "Loop", "Retention", "Endurance"}

\* ------------------------------------------------------------- helpers
Abs(x) == IF x < 0 THEN 0 - x ELSE x
Max(a, b) == IF a >= b THEN a ELSE b

Cmd(c, v) == [c |-> c, v |-> v]
Ent(cmd, r) == [c |-> cmd.c, v |-> cmd.v, r |-> r]

\* The outcomes of issuing cmds in order inside one try block: all succeed,
\* or the k-th raises and the rest is skipped.  With no handle the first
\* attribute access raises.  nf counts the transport errors.
IssueOn(h, cmds) ==
  IF Len(cmds) = 0 THEN { [log |-> <<>>, ok |-> TRUE, nf |-> 0] }
  ELSE IF h = "none"
  THEN { [log |-> <<Ent(cmds[1], "nohandle")>>, ok |-> FALSE, nf |-> 0] }
  ELSE { [log |-> [i \in 1..Len(cmds) |-> Ent(cmds[i], "ok")], ok |-> TRUE, nf |-> 0] }
       \cup
       { [log |-> [i \in 1..k |-> Ent(cmds[i], IF i = k THEN "err" ELSE "ok")],
          ok |-> FALSE, nf |-> 1] : k \in 1..Len(cmds) }

Issue(cmds) == { o \in IssueOn(smu, cmds) : o.nf <= faultsLeft }

\* np.linspace(a, b, n)[i], i in 1..n
Linspace(a, b, n, i) ==
  IF n = 1 THEN a
  ELSE IF i = n THEN b
  ELSE a + ((i - 1) * (b - a)) \div (n - 1)

\* tk.StringVar(value="0.001"): 1 mA
DefaultTestCurrent == 1000000000

\* float(s) for the texts typed into a range box: "0.001", "0", and "abc",
\* which float() rejects
IsNumber(s) == s # "abc"
RangeValue(s) == IF s = "0.001" THEN 1000000000 ELSE 0

\* ------------------------------------------------------------------ init
Init ==
  /\ smu = "none"
  /\ connected = FALSE
  /\ measurement_running = FALSE
  /\ data_points = <<>>
  /\ series_2400 = FALSE
  /\ series_2600 = FALSE
  /\ data_format_set = FALSE
  /\ model = {}
  /\ reading = <<>>
  /\ parsed = <<>>
  /\ dc_output_btn = "Output Off"
  /\ data_tree = <<>>
  /\ res_wire_mode = "2-Wire"
  /\ res_current = DefaultTestCurrent
  /\ start_btn = [k \in Kinds |-> TRUE]
  /\ stop_btn = [k \in Kinds |-> FALSE]
  /\ connect_btn = TRUE
  /\ disconnect_btn = FALSE
  /\ status_var = "Ready"
  /\ dialog = "none"
  /\ fgpc = "idle"
  /\ fgcmds = <<>>
  /\ afterq = <<>>
  /\ stopTimers = 0
  /\ faultsLeft = MaxFaults
  /\ startsLeft = MaxStarts
  /\ connectsLeft = MaxConnects
  /\ threads = <<>>

\* ------------------------------------------------------------- session
Is2400(m) == "keithley" \in m /\ \E x \in {"2400", "2450", "2460", "2470"} : x \in m
Is2600(m) == "keithley" \in m /\ \E x \in {"2601", "2602", "2612", "2636"} : x \in m

\* A configuration that ends by switching the output on
ConfigureOutcomes_OutputOn(s24, s26) ==
  LET cmds == <<Cmd("*RST", 0), Cmd("*CLS", 0), Cmd(":SOUR:FUNC VOLT", 0),
                Cmd(":SOUR:VOLT:LEV", 0), Cmd(":OUTP ON", 0)>>
  IN  { [log |-> o.log, warn |-> ~o.ok, fmt |-> "skipped", nf |-> o.nf] :
          o \in IssueOn("open", cmds) }

\* _configure_instrument on a freshly opened handle, with the dialect flags
\* s24, s26: the reset, the clear-errors block, the format block and the
\* three initialising writes.  fmt tells what the format block did to
\* data_format_set; warn tells whether the warning box is shown.
ConfigureOutcomes(s24, s26) ==
  LET rstCmds == <<Cmd("*RST", 0)>>
      clsCmds == IF s24 THEN <<Cmd("*CLS", 0), Cmd(":SYST:CLE", 0)>> ELSE <<Cmd("*CLS", 0)>>
      fmtCmds == IF s24 THEN <<Cmd(":FORM:ELEM VOLT,CURR,TIME", 0)>>
                 ELSE IF s26 THEN <<Cmd("format.data = format.ASCII", 0)>>
                 ELSE <<>>
      iniCmds == <<Cmd(":SOUR:FUNC VOLT", 0), Cmd(":SOUR:VOLT:LEV", 0), Cmd(":OUTP OFF", 0)>>
  IN  { [log |-> rst.log, warn |-> TRUE, fmt |-> "skipped", nf |-> 1] :
          rst \in {r \in IssueOn("open", rstCmds) : ~r.ok} }
      \cup
      { [log |-> [i \in 1..1 |-> Ent(rstCmds[1], "ok")] \o cls.log \o fmt.log \o ini.log,
         warn |-> ~ini.ok,
         fmt |-> IF ~fmt.ok THEN "failed" ELSE IF Len(fmtCmds) = 0 THEN "skipped" ELSE "set",
         nf |-> cls.nf + fmt.nf + ini.nf] :
          cls \in IssueOn("open", clsCmds), fmt \in IssueOn("open", fmtCmds),
          ini \in IssueOn("open", iniCmds) }

\* connect_instrument, including _configure_instrument
connect_instrument ==
  /\ fgpc = "idle"
  /\ connect_btn
  /\ \/ \* open_resource raises
        /\ faultsLeft > 0
        /\ faultsLeft' = faultsLeft - 1
        /\ UNCHANGED connectsLeft
        /\ dialog' = "Connection Error"
        /\ status_var' = "Connection failed"
        /\ fgcmds' = <<>>
        /\ UNCHANGED <<smu, connected, sessVars, btnVars, resVars>>
     \/ \* the identity query raises
        /\ faultsLeft > 0
        /\ faultsLeft' = faultsLeft - 1
        /\ UNCHANGED connectsLeft
        /\ smu' = "open"
        /\ fgcmds' = <<Ent(Cmd("*IDN?", 0), "err")>>
        /\ dialog' = "Connection Error"
        /\ status_var' = "Connection failed"
        /\ UNCHANGED <<connected, sessVars, btnVars, resVars>>
     \/ \E m \in IdnStrings :
          \E o \in ConfigureOutcomes(Is2400(m), Is2600(m)) :
            /\ connectsLeft > 0
            /\ connectsLeft' = connectsLeft - 1
            /\ o.nf <= faultsLeft
            /\ faultsLeft' = faultsLeft - o.nf
            /\ smu' = "open"
            /\ connected' = TRUE
            /\ model' = m
            /\ series_2400' = Is2400(m)
            /\ series_2600' = Is2600(m)
            /\ data_format_set' = CASE o.fmt = "set" -> TRUE
                                    [] o.fmt = "failed" -> FALSE
                                    [] OTHER -> data_format_set
            /\ connect_btn' = FALSE
            /\ disconnect_btn' = TRUE
            /\ status_var' = "Instrument connected successfully"
            /\ dialog' = IF o.warn THEN "Configuration Warning" ELSE "none"
            /\ fgcmds' = <<Ent(Cmd("*IDN?", 0), "ok")>> \o o.log
            /\ UNCHANGED <<start_btn, stop_btn, dc_output_btn, resVars, parseVars>>
  /\ UNCHANGED <<measurement_running, data_points, fgpc, afterq, stopTimers,
                 startsLeft, threads>>

\* disconnect_instrument: clear the flag, sleep, output-off, sleep, close.
\* The two sleeps are points where the background threads run.
disconnect_begin ==
  /\ fgpc = "idle"
  /\ disconnect_btn
  /\ measurement_running' = FALSE
  /\ fgcmds' = <<>>
  /\ dialog' = "none"
  /\ fgpc' = "disc_sleep1"
  /\ UNCHANGED <<smu, connected, data_points, sessVars, btnVars, resVars, status_var,
                 afterq, stopTimers, faultsLeft, startsLeft, connectsLeft, threads>>

DisconnectDone ==
  /\ connected' = FALSE
  /\ connect_btn' = TRUE
  /\ disconnect_btn' = FALSE
  /\ status_var' = "Instrument disconnected"
  /\ fgpc' = "idle"
  /\ UNCHANGED <<start_btn, stop_btn, dc_output_btn, resVars, dialog>>

DisconnectRaised ==
  /\ dialog' = "Disconnect Error"
  /\ fgpc' = "idle"
  /\ UNCHANGED <<smu, connected, btnVars, resVars, status_var>>

disconnect_output_off ==
  /\ fgpc = "disc_sleep1"
  /\ IF smu = "none"
     THEN DisconnectDone /\ UNCHANGED <<smu, fgcmds, faultsLeft>>
     ELSE \E o \in Issue(<<Cmd(":OUTP OFF", 0)>>) :
            /\ fgcmds' = fgcmds \o o.log
            /\ faultsLeft' = faultsLeft - o.nf
            /\ IF o.ok
               THEN fgpc' = "disc_sleep2" /\
                    UNCHANGED <<smu, connected, btnVars, resVars, status_var, dialog>>
               ELSE DisconnectRaised
  /\ UNCHANGED <<measurement_running, data_points, sessVars, afterq, stopTimers,
                 startsLeft, connectsLeft, threads>>

disconnect_close ==
  /\ fgpc = "disc_sleep2"
  /\ smu' = "none"
  /\ DisconnectDone
  /\ UNCHANGED <<measurement_running, data_points, sessVars, fgcmds, afterq,
                 stopTimers, faultsLeft, startsLeft, connectsLeft, threads>>

\* ------------------------------------------------------- reading parser
\* The fallback loop of _safe_parse_reading run over every field of the reply
Coerced_AllFields(parts) ==
  LET F[k \in 0..Len(parts)] ==
        IF k = 0 THEN <<>>
        ELSE IF parts[k].num THEN Append(F[k - 1], parts[k].val)
        ELSE F[k - 1]
  IN  F[Len(parts)]

\* _safe_parse_reading
Coerced(parts) ==
  LET F[k \in 0..Len(parts)] ==
        IF k = 0 THEN <<>>
        ELSE IF k <= 4 /\ parts[k].num THEN Append(F[k - 1], parts[k].val)
        ELSE F[k - 1]
  IN  F[Len(parts)]

ParseFail == [ok |-> FALSE, voltage |-> 0, current |-> 0]
ParseOk(v, c) == [ok |-> TRUE, voltage |-> v, current |-> c]

SafeParseReading(parts, fmtset, s24) ==
  IF fmtset /\ s24 /\ Len(parts) >= 2
  THEN IF parts[1].num /\ parts[2].num
       THEN ParseOk(parts[1].val, parts[2].val)
       ELSE ParseFail
  ELSE IF Len(parts) >= 2 /\ Len(Coerced(parts)) >= 2
  THEN ParseOk(Coerced(parts)[1], Coerced(parts)[2])
  ELSE IF parts[1].num
  THEN ParseOk(parts[1].val, parts[1].val)
  ELSE ParseFail

\* abs(voltage / current) if abs(current) > 1e-12 else inf, as a ratio
Resistance(v, c) ==
  IF Abs(c) > Threshold
  THEN [inf |-> FALSE, num |-> Abs(v), den |-> Abs(c)]
  ELSE [inf |-> TRUE, num |-> 0, den |-> 1]

\* ---------------------------------------------------- source configurator
\* An arming sequence that sends the protection level on every dialect
ArmCmds_ProtOnAll(s24, s26, compliance, current_range) ==
  <<Cmd(":SOUR:FUNC VOLT", 0), Cmd(":SOUR:VOLT:ILIM", compliance)>> \o
  ( IF current_range = "AUTO"
    THEN <<Cmd(":SENS:CURR:RANG:AUTO ON", 0),
           Cmd(":SENS:CURR:RANG:UPP", Max((compliance * 6) \div 5, RangeFloor))>>
    ELSE <<Cmd(":SENS:CURR:RANG:AUTO OFF", 0),
           Cmd(":SENS:CURR:RANG", RangeValue(current_range))>> ) \o
  <<Cmd(":SENS:CURR:PROT", compliance), Cmd(":SENS:FUNC 'CURR'", 0)>>

\* The writes of _set_current_compliance_and_range, in program order
ArmCmds(s24, s26, compliance, current_range) ==
  <<Cmd(":SOUR:FUNC VOLT", 0)>> \o
  ( IF s24
    THEN <<Cmd(":SOUR:VOLT:ILIM", compliance)>> \o
         ( IF current_range = "AUTO"
           THEN <<Cmd(":SENS:CURR:RANG:AUTO ON", 0),
                  Cmd(":SENS:CURR:RANG:UPP", Max((compliance * 6) \div 5, RangeFloor))>>
           ELSE <<Cmd(":SENS:CURR:RANG:AUTO OFF", 0),
                  Cmd(":SENS:CURR:RANG", RangeValue(current_range))>> ) \o
         <<Cmd(":SENS:CURR:PROT", compliance)>>
    ELSE IF s26
    THEN <<Cmd("smua.source.limiti", compliance)>> \o
         ( IF current_range # "AUTO"
           THEN <<Cmd("smua.measure.rangei", RangeValue(current_range))>>
           ELSE <<Cmd("smua.measure.autorangei = smua.AUTORANGE_ON", 0)>> )
    ELSE <<Cmd(":SOUR:VOLT:ILIM", compliance)>> \o
         ( IF current_range # "AUTO"
           THEN <<Cmd(":SENS:CURR:RANG", RangeValue(current_range)),
                  Cmd(":SENS:CURR:RANG:AUTO OFF", 0)>>
           ELSE <<Cmd(":SENS:CURR:RANG:AUTO ON", 0)>> ) ) \o
  <<Cmd(":SENS:FUNC 'CURR'", 0)>>

\* A run whose configure block is _set_current_compliance_and_range, and the
\* range mode it passes
UsesArm(th) == ~(th.kind = "Sweep" /\ th.p.source_type # "Voltage")
ArmRange(th) == IF th.kind \in {"Sweep", "Loop"} THEN th.p.current_range ELSE "AUTO"

\* float(current_range) raises in the 2400 branch, after the auto-range
\* disable has been written
ArmRaises(th) == UsesArm(th) /\ series_2400 /\ ~IsNumber(ArmRange(th))

\* The writes of the configure block that precede that exception
BeforeRaise(th) ==
  <<Cmd(":SOUR:FUNC VOLT", 0), Cmd(":SOUR:VOLT:ILIM", th.p.compliance),
    Cmd(":SENS:CURR:RANG:AUTO OFF", 0)>>

\* The configure block at the head of each _perform_* function
ConfigureCmds(th) ==
  CASE th.kind = "Sweep" /\ th.p.source_type # "Voltage" ->
         <<Cmd(":SOUR:FUNC CURR", 0), Cmd(":SOUR:CURR:VLIM", th.p.compliance),
           Cmd(":SENS:FUNC 'VOLT'", 0)>>
    [] ArmRaises(th) -> BeforeRaise(th)
    [] th.kind \in {"Sweep", "Loop"} ->
         ArmCmds(series_2400, series_2600, th.p.compliance, th.p.current_range)
    [] OTHER ->
         ArmCmds(series_2400, series_2600, th.p.compliance, "AUTO")

\* ------------------------------------------------------- start requests
\* start_iv_sweep's validation with the check of the delay left out
SweepError_AnyDelay(p) ==
  IF p.points <= 0 THEN "Points must be greater than 0"
  ELSE IF p.compliance <= 0 THEN "Compliance must be greater than 0"
  ELSE "ok"

SweepError(p) ==
  IF p.points <= 0 THEN "Points must be greater than 0"
  ELSE IF p.compliance <= 0 THEN "Compliance must be greater than 0"
  ELSE IF p.delay < 0 THEN "Delay must be non-negative"
  ELSE "ok"

LoopError(p) ==
  IF p.points <= 0 THEN "Points must be greater than 0"
  ELSE IF p.compliance <= 0 THEN "Compliance must be greater than 0"
  ELSE IF p.delay < 0 THEN "Delay must be non-negative"
  ELSE IF p.cycles <= 0 THEN "Number of cycles must be greater than 0"
  ELSE "ok"

RetentionError(p) ==
  IF p.compliance <= 0 THEN "Compliance must be greater than 0"
  ELSE IF p.duration <= 0 THEN "Duration must be greater than 0"
  ELSE IF p.interval <= 0 THEN "Interval must be greater than 0"
  ELSE "ok"

\* start_endurance_test's validation with the two safety limits left out
EnduranceError_NoLimits(p) ==
  IF p.compliance <= 0 THEN "Compliance current must be greater than 0"
  ELSE IF p.cycles <= 0 THEN "Number of cycles must be greater than 0"
  ELSE IF p.pulse_width <= 0 THEN "Pulse width must be greater than 0"
  ELSE "ok"

EnduranceError(p) ==
  IF p.compliance <= 0 THEN "Compliance current must be greater than 0"
  ELSE IF p.cycles <= 0 THEN "Number of cycles must be greater than 0"
  ELSE IF p.pulse_width <= 0 THEN "Pulse width must be greater than 0"
  ELSE IF Abs(p.vset) > Volt(VoltLimit) \/ Abs(p.vreset) > Volt(VoltLimit)
       THEN "Voltages should be reasonable (< 20V)"
  ELSE IF p.cycles > CycleLimit THEN "Too many cycles - limit to 100,000 for safety"
  ELSE "ok"

\* log holds the commands the run has issued, td the length of log when the
\* finally block was entered, nrec the number of records the run appended,
\* prog the progress values the run has passed to _update_progress, as
\* fractions, stopreq whether stop_measurement was called while the run was
\* alive, events the _update_data_table calls the run has queued.  r_set is
\* the local of that name in _perform_endurance_test.
NewThread(kind, p) ==
  [kind |-> kind, p |-> p, pc |-> "arm", cyc |-> 0, seg |-> 0, i |-> 0,
   log |-> <<>>, td |-> 0, err |-> "none", cancelled |-> FALSE, nrec |-> 0,
   prog |-> <<>>, reported |-> FALSE, stopreq |-> FALSE, events |-> <<>>,
   r_set |-> Resistance(0, 0)]

\* The common shape of start_iv_sweep, start_iv_loop, start_retention_test
\* and start_endurance_test; error is the outcome of the handler's validation.
StartRun(kind, p, error) ==
  /\ fgpc = "idle"
  /\ start_btn[kind]
  /\ startsLeft > 0
  /\ startsLeft' = startsLeft - 1
  /\ fgcmds' = <<>>
  /\ IF ~connected
     THEN /\ dialog' = "Not Connected"
          /\ UNCHANGED <<measurement_running, start_btn, stop_btn, threads>>
     ELSE IF error # "ok"
     THEN /\ dialog' = error
          /\ UNCHANGED <<measurement_running, start_btn, stop_btn, threads>>
     ELSE /\ measurement_running' = TRUE
          /\ start_btn' = [start_btn EXCEPT ![kind] = FALSE]
          /\ stop_btn' = [stop_btn EXCEPT ![kind] = TRUE]
          /\ threads' = Append(threads, NewThread(kind, p))
          /\ dialog' = "none"
  /\ UNCHANGED <<smu, connected, data_points, sessVars, connect_btn,
                 disconnect_btn, dc_output_btn, resVars, status_var, fgpc, afterq, stopTimers, faultsLeft,
                 connectsLeft>>

start_iv_sweep(p) == StartRun("Sweep", p, SweepError(p))
start_iv_loop(p) == StartRun("Loop", p, LoopError(p))
start_retention_test(p) == StartRun("Retention", p, RetentionError(p))
start_endurance_test(p) == StartRun("Endurance", p, EnduranceError(p))

\* stop_measurement
stop_measurement ==
  /\ fgpc = "idle"
  /\ \E k \in Kinds : stop_btn[k]
  /\ stopTimers < MaxStopTimers
  /\ measurement_running' = FALSE
  /\ status_var' = "Stopping measurement..."
  /\ stopTimers' = stopTimers + 1
  /\ fgcmds' = <<>>
  /\ dialog' = "none"
  /\ threads' = [t \in DOMAIN threads |->
                   IF threads[t].pc \in {"ended", "done"} THEN threads[t]
                   ELSE [threads[t] EXCEPT !.stopreq = TRUE]]
  /\ UNCHANGED <<smu, connected, data_points, sessVars, btnVars, resVars, fgpc,
                 afterq, faultsLeft, startsLeft, connectsLeft>>

\* _finalize_stop, run by the timer stop_measurement set
finalize_stop ==
  /\ fgpc = "idle"
  /\ stopTimers > 0
  /\ stopTimers' = stopTimers - 1
  /\ dialog' = "none"
  /\ \E o \in (IF smu = "none" THEN {[log |-> <<>>, ok |-> TRUE, nf |-> 0]}
               ELSE Issue(<<Cmd(":OUTP OFF", 0)>>)) :
       /\ fgcmds' = o.log
       /\ faultsLeft' = faultsLeft - o.nf
       /\ IF o.ok
          THEN /\ start_btn' = [k \in Kinds |-> TRUE]
               /\ stop_btn' = [k \in Kinds |-> FALSE]
               /\ status_var' = "Measurement stopped by user"
          ELSE UNCHANGED <<start_btn, stop_btn, status_var>>
  /\ UNCHANGED <<smu, connected, measurement_running, data_points, sessVars,
                 connect_btn, disconnect_btn, dc_output_btn, resVars, fgpc, afterq, startsLeft,
                 connectsLeft, threads>>

\* Requests of the DC bias tab; apply_dc_bias validates nothing.
DcInputs ==
  { [source_type |-> st, value |-> Volt(1), compliance |-> 10, current_range |-> "AUTO"] :
      st \in {"Voltage", "Current"} }

DcCmds(p) ==
  ( IF p.source_type = "Voltage"
    THEN ArmCmds(series_2400, series_2600, p.compliance, p.current_range) \o
         <<Cmd(":SOUR:VOLT:LEV", p.value)>>
    ELSE <<Cmd(":SOUR:FUNC CURR", 0), Cmd(":SOUR:CURR:LEV", p.value),
           Cmd(":SOUR:CURR:VLIM", p.compliance)>> ) \o
  <<Cmd(":OUTP ON", 0)>>

\* apply_dc_bias
apply_dc_bias(p) ==
  /\ fgpc = "idle"
  /\ IF ~connected
     THEN /\ dialog' = "Not Connected"
          /\ fgcmds' = <<>>
          /\ UNCHANGED <<status_var, dc_output_btn, faultsLeft>>
     ELSE \E o \in Issue(DcCmds(p)) :
            /\ fgcmds' = o.log
            /\ faultsLeft' = faultsLeft - o.nf
            /\ IF o.ok
               THEN /\ status_var' = "Applied bias"
                    /\ dc_output_btn' = "Output Off"
                    /\ dialog' = "none"
               ELSE /\ dialog' = "Error"
                    /\ status_var' =
                         IF p.source_type = "Voltage" /\ Len(o.log) > Len(DcCmds(p)) - 2
                         THEN "Compliance set" ELSE status_var
                    /\ UNCHANGED dc_output_btn
  /\ UNCHANGED <<smu, connected, measurement_running, data_points, sessVars, resVars,
                 start_btn, stop_btn, connect_btn, disconnect_btn, fgpc, afterq,
                 stopTimers, startsLeft, connectsLeft, threads>>

\* toggle_output
toggle_output ==
  /\ fgpc = "idle"
  /\ connected
  /\ \E o \in Issue(<<Cmd(IF dc_output_btn = "Output Off" THEN ":OUTP OFF" ELSE ":OUTP ON", 0)>>) :
       /\ fgcmds' = o.log
       /\ faultsLeft' = faultsLeft - o.nf
       /\ IF o.ok
          THEN /\ dc_output_btn' = IF dc_output_btn = "Output Off"
                                   THEN "Output On" ELSE "Output Off"
               /\ status_var' = IF dc_output_btn = "Output Off"
                                THEN "Output turned off" ELSE "Output turned on"
               /\ dialog' = "none"
          ELSE /\ dialog' = "Error"
               /\ UNCHANGED <<dc_output_btn, status_var>>
  /\ UNCHANGED <<smu, connected, measurement_running, data_points, sessVars, resVars,
                 start_btn, stop_btn, connect_btn, disconnect_btn, fgpc, afterq,
                 stopTimers, startsLeft, connectsLeft, threads>>

\* ------------------------------------------------------- resistance tab
WireModes == {"2-Wire", "4-Wire"}

\* Test currents typed into the entry, in pA: -1 mA, 0, 1 pA, 1 mA
TestCurrents == {0 - DefaultTestCurrent, 0, Threshold, DefaultTestCurrent}

\* Replies to the :READ? of the resistance measurement
ResReplies == Replies \cup { <<N(-12), N(5)>> }

\* A wire-mode write that is sent whatever the instrument
WireCmds_AnyDialect(mode, s24) ==
  IF mode = "4-Wire" THEN <<Cmd(":SENS:REM ON", 0)>>
  ELSE <<Cmd(":SENS:REM OFF", 0)>>

\* The write of _set_wire_mode
WireCmds(mode, s24) ==
  IF mode = "4-Wire" /\ s24 THEN <<Cmd(":SENS:REM ON", 0)>>
  ELSE IF s24 THEN <<Cmd(":SENS:REM OFF", 0)>>
  ELSE <<>>

\* _set_wire_mode: the outcomes of its write; a failure is logged as a
\* warning and the caller goes on
set_wire_mode(mode) == IssueOn(smu, WireCmds(mode, series_2400))

\* The exchanges of measure_resistance up to the reading
ResCmds(test_current) ==
  <<Cmd(":SOUR:FUNC CURR", 0), Cmd(":SOUR:CURR:LEV", test_current),
    Cmd(":SENS:FUNC 'VOLT'", 0), Cmd(":OUTP ON", 0), Cmd(":READ?", 0)>>

\* voltage / test_current if test_current != 0 else inf, as a signed ratio
Quotient(voltage, test_current) ==
  IF test_current # 0
  THEN [inf |-> FALSE, num |-> voltage, den |-> test_current]
  ELSE [inf |-> TRUE, num |-> 0, den |-> 1]

\* A finally block that does nothing
FinallyOff_Skipped(h) == { [log |-> <<>>, ok |-> TRUE, nf |-> 0] }

\* finally: try: self.smu.write(":OUTP OFF") except Exception: pass
FinallyOff(h) == IssueOn(h, <<Cmd(":OUTP OFF", 0)>>)

\* measure_resistance, with the mode and the test current the user has set
\* in the tab.  The row keeps the measured voltage, which the handler shows
\* in its message box.
measure_resistance(mode, test_current) ==
  /\ fgpc = "idle"
  /\ res_wire_mode' = mode
  /\ res_current' = test_current
  /\ IF ~connected
     THEN /\ dialog' = "Not Connected"
          /\ fgcmds' = <<>>
          /\ UNCHANGED <<data_tree, faultsLeft>>
     ELSE \E w \in set_wire_mode(mode), m \in IssueOn(smu, ResCmds(test_current)),
             reply \in ResReplies, off \in IssueOn(smu, <<Cmd(":OUTP OFF", 0)>>),
             fin \in FinallyOff(smu) :
            LET q == SafeParseReading(reply, data_format_set, series_2400)
                shown == m.ok /\ q.ok /\ off.ok
                nf == w.nf + m.nf + fin.nf
                      + (IF ~m.ok THEN 0 ELSE IF q.ok THEN off.nf ELSE 1)
            IN  /\ nf <= faultsLeft
                /\ faultsLeft' = faultsLeft - nf
                /\ fgcmds' = w.log \o m.log
                             \o (IF m.ok /\ q.ok THEN off.log ELSE <<>>) \o fin.log
                /\ dialog' = IF shown THEN "Resistance Measurement" ELSE "Error"
                /\ data_tree' =
                     IF shown
                     THEN <<[voltage |-> test_current, current |-> q.current,
                             resistance |-> Quotient(q.voltage, test_current),
                             cycle |-> 1, state |-> mode,
                             measured |-> q.voltage]>>
                     ELSE data_tree
  /\ UNCHANGED <<smu, connected, measurement_running, data_points, sessVars,
                 btnVars, status_var, fgpc, afterq, stopTimers, startsLeft,
                 connectsLeft, threads>>

\* A thread whose completion has been delivered keeps only its identity.
Finished(th) ==
  [kind |-> th.kind, p |-> th.p, pc |-> "done", cyc |-> 0, seg |-> 0, i |-> 0,
   log |-> <<>>, td |-> 0, err |-> th.err, cancelled |-> th.cancelled,
   nrec |-> th.nrec, prog |-> <<>>, reported |-> TRUE, stopreq |-> th.stopreq,
   events |-> <<>>, r_set |-> Resistance(0, 0)]

\* The Tk main loop runs the oldest callback queued by root.after(0, ...):
\* messagebox.showerror, or _sweep_completed
run_callback ==
  /\ fgpc = "idle"
  /\ Len(afterq) > 0
  /\ afterq' = Tail(afterq)
  /\ fgcmds' = <<>>
  /\ IF Head(afterq).cb = "showerror"
     THEN /\ dialog' = "Measurement Error"
          /\ UNCHANGED <<measurement_running, start_btn, stop_btn, status_var, threads>>
     ELSE /\ measurement_running' = FALSE
          /\ start_btn' = [k \in Kinds |-> TRUE]
          /\ stop_btn' = [k \in Kinds |-> FALSE]
          /\ status_var' = "Measurement completed"
          /\ threads' = [threads EXCEPT ![Head(afterq).run] = Finished(@)]
          /\ dialog' = "none"
  /\ UNCHANGED <<smu, connected, data_points, sessVars, connect_btn,
                 disconnect_btn, dc_output_btn, resVars, fgpc, stopTimers, faultsLeft, startsLeft,
                 connectsLeft>>

\* ---------------------------------------------------- background threads
bgUnchanged == <<connected, measurement_running, sessVars, btnVars, resVars, dialog,
                 fgpc, fgcmds, stopTimers, smu, startsLeft, connectsLeft>>

Faulted(o) == faultsLeft' = faultsLeft - o.nf

Logged(th, o) == [th EXCEPT !.log = th.log \o o.log]

\* An exception inside the try block: the error box is queued and control
\* passes to the finally block.
Raise(t, th, what) ==
  /\ threads' = [threads EXCEPT ![t] = [th EXCEPT !.pc = "teardown", !.err = what]]
  /\ afterq' = Append(afterq, [cb |-> "showerror", run |-> t])

Goto(t, th) ==
  /\ threads' = [threads EXCEPT ![t] = th]
  /\ UNCHANGED afterq

\* One write inside the try block: on success continue as next
Write(t, th, cmd, next) ==
  \E o \in Issue(<<cmd>>) :
    /\ Faulted(o)
    /\ IF o.ok THEN Goto(t, [next EXCEPT !.log = th.log \o o.log])
               ELSE Raise(t, Logged(th, o), "write")

\* The flag was seen cleared: no I/O, continue as next
Cancel(t, next) ==
  /\ Goto(t, [next EXCEPT !.cancelled = TRUE])
  /\ UNCHANGED faultsLeft

Record(t, voltage, v_read, current, cycle, state) ==
  [run |-> t, voltage |-> voltage, current |-> current,
   resistance |-> Resistance(v_read, current), cycle |-> cycle, state |-> state]

\* One :READ? exchange followed by _safe_parse_reading
ReadOutcomes ==
  { [log |-> o.log, ok |-> FALSE, nf |-> o.nf, err |-> "query", voltage |-> 0, current |-> 0] :
      o \in {x \in Issue(<<Cmd(":READ?", 0)>>) : ~x.ok} }
  \cup
  { r \in { [log |-> o.log, ok |-> q.ok, nf |-> IF q.ok THEN 0 ELSE 1,
             err |-> IF q.ok THEN "none" ELSE "parse",
             voltage |-> q.voltage, current |-> q.current] :
             o \in {x \in Issue(<<Cmd(":READ?", 0)>>) : x.ok},
             q \in {SafeParseReading(reply, data_format_set, series_2400) : reply \in Replies} } :
      r.nf <= faultsLeft }

\* A configure block that swallows the failure of a write and goes on to
\* switch the output on
configure_swallowing(t) ==
  LET th == threads[t] IN
  /\ th.pc = "arm"
  /\ \E o \in Issue(ConfigureCmds(th)) :
       /\ Faulted(o)
       /\ Goto(t, [Logged(th, o) EXCEPT !.pc = "on"])
       /\ UNCHANGED status_var
  /\ UNCHANGED <<bgUnchanged, data_points>>

\* The configure block of a _perform_* function
configure(t) ==
  LET th == threads[t] IN
  /\ th.pc = "arm"
  /\ \E o \in Issue(ConfigureCmds(th)) :
       /\ Faulted(o)
       /\ IF o.ok /\ ~ArmRaises(th)
            THEN /\ Goto(t, [Logged(th, o) EXCEPT !.pc = "on"])
                 /\ status_var' = IF th.kind = "Sweep" /\ th.p.source_type # "Voltage"
                                  THEN status_var ELSE "Compliance set"
            ELSE /\ Raise(t, Logged(th, o), "configure")
                 /\ UNCHANGED status_var
  /\ UNCHANGED <<bgUnchanged, data_points>>

FirstPc(kind) ==
  CASE kind = "Sweep" -> "sweep_w"
    [] kind = "Loop" -> "loop_cycle"
    [] kind = "Retention" -> "ret_prog"
    [] OTHER -> "end_cycle"

\* :OUTP ON, then data_points.clear()
output_on(t) ==
  LET th == threads[t] IN
  /\ th.pc = "on"
  /\ \E o \in Issue(<<Cmd(":OUTP ON", 0)>>) :
       /\ Faulted(o)
       /\ IF o.ok
            THEN /\ Goto(t, [Logged(th, o) EXCEPT !.pc = FirstPc(th.kind), !.cyc = 1,
                                                   !.seg = 1, !.i = 1])
                 /\ data_points' = <<>>
            ELSE /\ Raise(t, Logged(th, o), "write")
                 /\ UNCHANGED data_points
  /\ UNCHANGED <<bgUnchanged, status_var>>

\* _perform_iv_sweep: head of the for loop and the set-level write
sweep_write(t) ==
  LET th == threads[t] IN
  /\ th.pc = "sweep_w"
  /\ IF ~measurement_running
       THEN Cancel(t, [th EXCEPT !.pc = "teardown"])
       ELSE Write(t, th,
                  Cmd(IF th.p.source_type = "Voltage" THEN ":SOUR:VOLT:LEV"
                      ELSE ":SOUR:CURR:LEV",
                      Linspace(SweepStart, SweepStop, th.p.points, th.i)),
                  [th EXCEPT !.pc = "sweep_q"])
  /\ UNCHANGED <<bgUnchanged, status_var, data_points>>

Frac(n, d) == [num |-> n, den |-> d]

\* root.after(0, self._update_progress, progress)
Progress(th, value) == [th EXCEPT !.prog = Append(th.prog, value)]

\* self.root.after(0, self._update_data_table, ...)
Emit(th, ev) == [th EXCEPT !.events = Append(th.events, ev)]

\* A read that is issued again after a failed exchange instead of ending the
\* run
Sample_Retrying(t, th, o, rec, next) ==
  /\ Faulted(o)
  /\ IF o.ok
       THEN /\ data_points' = Append(data_points, rec)
            /\ Goto(t, [next EXCEPT !.log = th.log \o o.log, !.nrec = th.nrec + 1])
       ELSE /\ Goto(t, Logged(th, o))
            /\ UNCHANGED data_points

\* A successful read: the record is appended and the thread continues as next
Sample(t, th, o, rec, next) ==
  /\ Faulted(o)
  /\ IF o.ok
       THEN /\ data_points' = Append(data_points, rec)
            /\ Goto(t, [next EXCEPT !.log = th.log \o o.log, !.nrec = th.nrec + 1])
       ELSE /\ Raise(t, Logged(th, o), o.err)
            /\ UNCHANGED data_points

\* _perform_iv_sweep: read, parse, append
sweep_read(t) ==
  LET th == threads[t] IN
  /\ th.pc = "sweep_q"
  /\ \E o \in ReadOutcomes :
       Sample(t, th, o, Record(t, o.voltage, o.voltage, o.current, 1, "Sweep"),
              [Emit(Progress(th, Frac(100 * th.i, th.p.points)),
                    Record(t, o.voltage, o.voltage, o.current, 1, "Sweep"))
                 EXCEPT !.i = th.i + 1,
                        !.pc = IF th.i = th.p.points THEN "teardown" ELSE "sweep_w"])
  /\ UNCHANGED <<bgUnchanged, status_var>>

\* _perform_iv_loop
segment_names == <<"0->+V", "+V->-V", "-V->0", "End">>

\* A closing segment as long as the other three
SegLen_AllPoints(seg, points) == points

SegLen(seg, points) == IF seg = 4 THEN 1 ELSE points

SegVoltage(seg, points, i) ==
  CASE seg = 1 -> Linspace(0, Vpos, points, i)
    [] seg = 2 -> Linspace(Vpos, Vneg, points, i)
    [] seg = 3 -> Linspace(Vneg, 0, points, i)
    [] OTHER -> 0

\* The position after the last step of a cycle
LoopNextCycle(th) ==
  [th EXCEPT !.cyc = th.cyc + 1, !.seg = 1, !.i = 1,
             !.pc = IF th.cyc = th.p.cycles THEN "teardown" ELSE "loop_cycle"]

\* The position after segment seg is left
LoopNextSegment(th) ==
  IF th.seg < 4 THEN [th EXCEPT !.seg = th.seg + 1, !.i = 1, !.pc = "loop_w"]
  ELSE LoopNextCycle(th)

\* head of the outer for loop
loop_cycle(t) ==
  LET th == threads[t] IN
  /\ th.pc = "loop_cycle"
  /\ IF ~measurement_running
       THEN Cancel(t, [th EXCEPT !.pc = "teardown"])
       ELSE Goto(t, [th EXCEPT !.pc = "loop_w"]) /\ UNCHANGED faultsLeft
  /\ UNCHANGED <<bgUnchanged, status_var, data_points>>

\* head of the innermost for loop and the set-level write
loop_write(t) ==
  LET th == threads[t] IN
  /\ th.pc = "loop_w"
  /\ IF ~measurement_running
       THEN Cancel(t, LoopNextSegment(th))
       ELSE Write(t, th, Cmd(":SOUR:VOLT:LEV", SegVoltage(th.seg, th.p.points, th.i)),
                  [th EXCEPT !.pc = "loop_q"])
  /\ UNCHANGED <<bgUnchanged, status_var, data_points>>

loop_read(t) ==
  LET th == threads[t] IN
  /\ th.pc = "loop_q"
  /\ \E o \in ReadOutcomes :
       Sample(t, th, o,
              Record(t, SegVoltage(th.seg, th.p.points, th.i), o.voltage, o.current,
                     th.cyc, segment_names[th.seg]),
              LET pth == Emit(Progress(th, Frac(100 * (th.nrec + 1),
                                                th.p.cycles * th.p.points * 4)),
                              Record(t, SegVoltage(th.seg, th.p.points, th.i),
                                     o.voltage, o.current, th.cyc,
                                     segment_names[th.seg]))
              IN  IF th.i < SegLen(th.seg, th.p.points)
                  THEN [pth EXCEPT !.i = th.i + 1, !.pc = "loop_w"]
                  ELSE LoopNextSegment(pth))
  /\ UNCHANGED <<bgUnchanged, status_var>>

\* _perform_retention_test.  seg is the phase, i the read count of the phase.
\* Each pass of a phase loop sleeps interval seconds, so after i reads at
\* least i * interval seconds of the phase have elapsed.
ret_program(t) ==
  LET th == threads[t] IN
  /\ th.pc = "ret_prog"
  /\ Write(t, th, Cmd(":SOUR:VOLT:LEV", RetVset), [th EXCEPT !.pc = "ret_w", !.i = 0])
  /\ UNCHANGED <<bgUnchanged, status_var, data_points>>

RetAfterLoop(th) == [th EXCEPT !.pc = IF th.seg = 1 THEN "ret_mid" ELSE "teardown"]

\* head of a while loop and the set-level write
ret_write(t) ==
  LET th == threads[t] IN
  /\ th.pc = "ret_w"
  /\ IF ~measurement_running
       THEN Cancel(t, RetAfterLoop(th))
       ELSE \/ /\ th.i > 0
               /\ Goto(t, RetAfterLoop(th))
               /\ UNCHANGED faultsLeft
            \/ /\ 2 * th.i * th.p.interval < th.p.duration
               /\ Write(t, th, Cmd(":SOUR:VOLT:LEV", Vread), [th EXCEPT !.pc = "ret_q"])
  /\ UNCHANGED <<bgUnchanged, status_var, data_points>>

\* read, parse, append, then the progress computation
ret_read(t) ==
  LET th == threads[t]
      max_reads == th.p.duration \div (2 * th.p.interval)
  IN
  /\ th.pc = "ret_q"
  /\ \E o \in ReadOutcomes :
       Sample(t, th, o,
              Record(t, Vread, o.voltage, o.current, th.seg,
                     IF th.seg = 1 THEN "SET_retention" ELSE "RESET_retention"),
              IF max_reads = 0
              THEN [th EXCEPT !.pc = "ret_div0"]
              ELSE [Emit(Progress(th, Frac((IF th.seg = 1 THEN 0 ELSE 50 * max_reads)
                                           + 50 * (th.i + 1), max_reads)),
                         Record(t, Vread, o.voltage, o.current, th.seg,
                                IF th.seg = 1 THEN "SET_retention"
                                ELSE "RESET_retention"))
                      EXCEPT !.i = th.i + 1, !.pc = "ret_w"])
  /\ UNCHANGED <<bgUnchanged, status_var>>

\* read_count / max_reads raises ZeroDivisionError
ret_progress_raises(t) ==
  LET th == threads[t] IN
  /\ th.pc = "ret_div0"
  /\ Raise(t, th, "progress")
  /\ UNCHANGED <<bgUnchanged, status_var, data_points, faultsLeft>>

\* A passage to phase 2 that does not look at the flag
ret_mid_Unchecked(t) ==
  LET th == threads[t] IN
  /\ th.pc = "ret_mid"
  /\ Write(t, th, Cmd(":SOUR:VOLT:LEV", RetVreset),
           [th EXCEPT !.pc = "ret_w", !.seg = 2, !.i = 0])
  /\ UNCHANGED <<bgUnchanged, status_var, data_points>>

\* A passage to phase 2 that does not program the RESET state
ret_mid_NoProgram(t) ==
  LET th == threads[t] IN
  /\ th.pc = "ret_mid"
  /\ IF ~measurement_running
       THEN Cancel(t, [th EXCEPT !.pc = "teardown"])
       ELSE Goto(t, [th EXCEPT !.pc = "ret_w", !.seg = 2, !.i = 0])
            /\ UNCHANGED faultsLeft
  /\ UNCHANGED <<bgUnchanged, status_var, data_points>>

\* between the two phases
ret_mid(t) ==
  LET th == threads[t] IN
  /\ th.pc = "ret_mid"
  /\ IF ~measurement_running
       THEN Cancel(t, [th EXCEPT !.pc = "teardown"])
       ELSE Write(t, th, Cmd(":SOUR:VOLT:LEV", RetVreset),
                  [th EXCEPT !.pc = "ret_w", !.seg = 2, !.i = 0])
  /\ UNCHANGED <<bgUnchanged, status_var, data_points>>

\* _perform_endurance_test.  seg is the position inside the cycle.
end_cycle(t) ==
  LET th == threads[t] IN
  /\ th.pc = "end_cycle"
  /\ IF ~measurement_running
       THEN Cancel(t, [th EXCEPT !.pc = "teardown"])
       ELSE Write(t, th, Cmd(":SOUR:VOLT:LEV", th.p.vset),
                  [th EXCEPT !.pc = "end_w", !.seg = 1])
  /\ UNCHANGED <<bgUnchanged, status_var, data_points>>

end_write(t) ==
  LET th == threads[t] IN
  /\ th.pc = "end_w"
  /\ Write(t, th,
           Cmd(":SOUR:VOLT:LEV", IF th.seg = 2 THEN th.p.vreset ELSE Vread),
           IF th.seg = 2 THEN [th EXCEPT !.seg = 3] ELSE [th EXCEPT !.pc = "end_q"])
  /\ UNCHANGED <<bgUnchanged, status_var, data_points>>

\* An endurance read that numbers the cycles from 0
end_read_ZeroBased(t) ==
  LET th == threads[t] IN
  /\ th.pc = "end_q"
  /\ \E o \in ReadOutcomes :
       Sample(t, th, o,
              Record(t, IF th.seg = 1 THEN th.p.vset ELSE th.p.vreset, o.voltage,
                     o.current, th.cyc - 1, IF th.seg = 1 THEN "SET" ELSE "RESET"),
              IF th.seg = 1
              THEN [th EXCEPT !.pc = "end_w", !.seg = 2]
              ELSE [Progress(th, Frac(100 * th.cyc, th.p.cycles))
                      EXCEPT !.cyc = th.cyc + 1, !.seg = 1,
                             !.pc = IF th.cyc = th.p.cycles THEN "teardown"
                                    ELSE "end_cycle"])
  /\ UNCHANGED <<bgUnchanged, status_var>>

end_read(t) ==
  LET th == threads[t] IN
  /\ th.pc = "end_q"
  /\ \E o \in ReadOutcomes :
       Sample(t, th, o,
              Record(t, IF th.seg = 1 THEN th.p.vset ELSE th.p.vreset, o.voltage,
                     o.current, th.cyc, IF th.seg = 1 THEN "SET" ELSE "RESET"),
              IF th.seg = 1
              THEN [th EXCEPT !.pc = "end_w", !.seg = 2,
                               !.r_set = Resistance(o.voltage, o.current)]
              ELSE [Emit(Emit(Progress(th, Frac(100 * th.cyc, th.p.cycles)),
                              [run |-> t, voltage |-> th.p.vset,
                               current |-> o.current, resistance |-> th.r_set,
                               cycle |-> th.cyc, state |-> "SET"]),
                         Record(t, th.p.vreset, o.voltage, o.current, th.cyc, "RESET"))
                      EXCEPT !.cyc = th.cyc + 1, !.seg = 1,
                             !.pc = IF th.cyc = th.p.cycles THEN "teardown"
                                    ELSE "end_cycle"])
  /\ UNCHANGED <<bgUnchanged, status_var>>

\* The finally block of a _perform_* function
TeardownCmds(kind) ==
  IF kind = "Sweep" THEN <<Cmd(":OUTP OFF", 0)>>
  ELSE <<Cmd(":SOUR:VOLT:LEV", 0), Cmd(":OUTP OFF", 0)>>

teardown(t) ==
  LET th == threads[t] IN
  /\ th.pc = "teardown"
  /\ \E o \in Issue(TeardownCmds(th.kind)) :
       /\ Faulted(o)
       /\ threads' = [threads EXCEPT ![t] = [Logged(th, o) EXCEPT !.pc = "ended",
                                                                  !.td = Len(th.log)]]
  /\ afterq' = Append(afterq, [cb |-> "_sweep_completed", run |-> t])
  /\ UNCHANGED <<bgUnchanged, status_var, data_points>>

\* ------------------------------------------------------------------ next
Next ==
  \/ connect_instrument
  \/ disconnect_begin
  \/ disconnect_output_off
  \/ disconnect_close
  \/ \E p \in SweepInputs : start_iv_sweep(p)
  \/ \E p \in LoopInputs : start_iv_loop(p)
  \/ \E p \in RetentionInputs : start_retention_test(p)
  \/ \E p \in EnduranceInputs : start_endurance_test(p)
  \/ stop_measurement
  \/ finalize_stop
  \/ run_callback
  \/ \E t \in 1..Len(threads) :
       \/ configure(t)
       \/ output_on(t)
       \/ sweep_write(t)
       \/ sweep_read(t)
       \/ loop_cycle(t)
       \/ loop_write(t)
       \/ loop_read(t)
       \/ ret_program(t)
       \/ ret_write(t)
       \/ ret_read(t)
       \/ ret_progress_raises(t)
       \/ ret_mid(t)
       \/ end_cycle(t)
       \/ end_write(t)
       \/ end_read(t)
       \/ teardown(t)

Spec == Init /\ [][Next]_vars

\* Two runs inside one connected session: the state after a failed and then
\* a clean connect to a 2400-family instrument, with no further transport
\* error, and the base requests of the Sweep and Loop protocols.
InitConc ==
  /\ smu = "open"
  /\ connected = TRUE
  /\ measurement_running = FALSE
  /\ data_points = <<>>
  /\ series_2400 = TRUE
  /\ series_2600 = FALSE
  /\ data_format_set = TRUE
  /\ model = {"keithley", "2400"}
  /\ reading = <<>>
  /\ parsed = <<>>
  /\ dc_output_btn = "Output Off"
  /\ data_tree = <<>>
  /\ res_wire_mode = "2-Wire"
  /\ res_current = DefaultTestCurrent
  /\ start_btn = [k \in Kinds |-> TRUE]
  /\ stop_btn = [k \in Kinds |-> FALSE]
  /\ connect_btn = FALSE
  /\ disconnect_btn = TRUE
  /\ status_var = "Instrument connected successfully"
  /\ dialog = "none"
  /\ fgpc = "idle"
  /\ fgcmds \in { <<Ent(Cmd("*IDN?", 0), "ok")>> \o o.log :
                    o \in {x \in ConfigureOutcomes(TRUE, FALSE) : x.nf = 0} }
  /\ afterq = <<>>
  /\ stopTimers = 0
  /\ faultsLeft = 0
  /\ startsLeft = MaxConcStarts
  /\ connectsLeft = 0
  /\ threads = <<>>

NextConc ==
  \/ start_iv_sweep(SweepBase)
  \/ start_iv_loop(LoopBase)
  \/ stop_measurement
  \/ finalize_stop
  \/ run_callback
  \/ \E t \in 1..Len(threads) :
       \/ configure(t)
       \/ output_on(t)
       \/ sweep_write(t)
       \/ sweep_read(t)
       \/ loop_cycle(t)
       \/ loop_write(t)
       \/ loop_read(t)
       \/ teardown(t)

SpecConc == InitConc /\ [][NextConc]_vars

\* The DC bias tab beside one Sweep: a connected session to an instrument
\* of neither family, the base Sweep request, the stop button, and the two
\* handlers of the DC bias tab.
InitFg ==
  /\ smu = "open"
  /\ connected = TRUE
  /\ measurement_running = FALSE
  /\ data_points = <<>>
  /\ series_2400 = FALSE
  /\ series_2600 = FALSE
  /\ data_format_set = FALSE
  /\ model = {"agilent"}
  /\ reading = <<>>
  /\ parsed = <<>>
  /\ dc_output_btn = "Output Off"
  /\ data_tree = <<>>
  /\ res_wire_mode = "2-Wire"
  /\ res_current = DefaultTestCurrent
  /\ start_btn = [k \in Kinds |-> TRUE]
  /\ stop_btn = [k \in Kinds |-> FALSE]
  /\ connect_btn = FALSE
  /\ disconnect_btn = TRUE
  /\ status_var = "Instrument connected successfully"
  /\ dialog = "none"
  /\ fgpc = "idle"
  /\ fgcmds \in { <<Ent(Cmd("*IDN?", 0), "ok")>> \o o.log :
                    o \in {x \in ConfigureOutcomes(FALSE, FALSE) : x.nf = 0} }
  /\ afterq = <<>>
  /\ stopTimers = 0
  /\ faultsLeft = MaxFaults
  /\ startsLeft = MaxStarts
  /\ connectsLeft = 0
  /\ threads = <<>>

NextFg ==
  \/ start_iv_sweep(SweepBase)
  \/ \E p \in DcInputs : apply_dc_bias(p)
  \/ toggle_output
  \/ stop_measurement
  \/ finalize_stop
  \/ run_callback
  \/ \E t \in 1..Len(threads) :
       \/ configure(t)
       \/ output_on(t)
       \/ sweep_write(t)
       \/ sweep_read(t)
       \/ teardown(t)

SpecFg == InitFg /\ [][NextFg]_vars

\* Dialect resolution on its own: the foreground path stands inside
\* connect_instrument with the identity string stored, and sets the two
\* family flags from it.  An identity string is the set of the tokens below
\* that occur in it.
Tokens2400 == {"2400", "2450", "2460", "2470"}
Tokens2600 == {"2601", "2602", "2612", "2636"}
IdnTokens == {"keithley", "agilent", "2634"} \cup Tokens2400 \cup Tokens2600

\* The branch the configurator takes: if series_2400 / elif series_2600 / else
Dialect(s24, s26) ==
  IF s24 THEN "Family2400" ELSE IF s26 THEN "Family2600" ELSE "GenericSCPI"

InitResolve ==
  /\ smu = "open"
  /\ connected = TRUE
  /\ measurement_running = FALSE
  /\ data_points = <<>>
  /\ series_2400 = FALSE
  /\ series_2600 = FALSE
  /\ data_format_set = FALSE
  /\ model \in SUBSET IdnTokens
  /\ reading = <<>>
  /\ parsed = <<>>
  /\ dc_output_btn = "Output Off"
  /\ data_tree = <<>>
  /\ res_wire_mode = "2-Wire"
  /\ res_current = DefaultTestCurrent
  /\ start_btn = [k \in Kinds |-> TRUE]
  /\ stop_btn = [k \in Kinds |-> FALSE]
  /\ connect_btn = TRUE
  /\ disconnect_btn = FALSE
  /\ status_var = "Ready"
  /\ dialog = "none"
  /\ fgpc = "identify"
  /\ fgcmds = <<Ent(Cmd("*IDN?", 0), "ok")>>
  /\ afterq = <<>>
  /\ stopTimers = 0
  /\ faultsLeft = 0
  /\ startsLeft = 0
  /\ connectsLeft = 0
  /\ threads = <<>>

identify ==
  /\ fgpc = "identify"
  /\ series_2400' = Is2400(model)
  /\ series_2600' = Is2600(model)
  /\ fgpc' = "identified"
  /\ UNCHANGED <<smu, connected, measurement_running, data_points,
                 data_format_set, model, parseVars, btnVars, resVars, status_var, dialog,
                 fgcmds, afterq, stopTimers, faultsLeft, startsLeft,
                 connectsLeft, threads>>

SpecResolve == InitResolve /\ [][identify]_vars

\* The reading parser on its own: a reply of up to MaxFields comma-separated
\* fields, the k-th a numeric text of value k or a text float() rejects,
\* parsed in every state of the two session flags the parser reads.
ReplyInputs ==
  UNION { { [k \in 1..n |-> IF k \in S THEN N(k) ELSE NaN] : S \in SUBSET (1..n) } :
          n \in 1..MaxFields }

InitParse ==
  /\ smu = "open"
  /\ connected = TRUE
  /\ measurement_running = FALSE
  /\ data_points = <<>>
  /\ series_2400 \in BOOLEAN
  /\ series_2600 = FALSE
  /\ data_format_set \in BOOLEAN
  /\ model = IF series_2400 THEN {"keithley", "2400"} ELSE {"agilent"}
  /\ reading \in ReplyInputs
  /\ parsed = <<>>
  /\ dc_output_btn = "Output Off"
  /\ data_tree = <<>>
  /\ res_wire_mode = "2-Wire"
  /\ res_current = DefaultTestCurrent
  /\ start_btn = [k \in Kinds |-> TRUE]
  /\ stop_btn = [k \in Kinds |-> FALSE]
  /\ connect_btn = FALSE
  /\ disconnect_btn = TRUE
  /\ status_var = "Instrument connected successfully"
  /\ dialog = "none"
  /\ fgpc = "idle"
  /\ fgcmds = <<>>
  /\ afterq = <<>>
  /\ stopTimers = 0
  /\ faultsLeft = 0
  /\ startsLeft = 0
  /\ connectsLeft = 0
  /\ threads = <<>>

safe_parse_reading ==
  /\ reading # <<>>
  /\ parsed = <<>>
  /\ parsed' = <<SafeParseReading(reading, data_format_set, series_2400)>>
  /\ UNCHANGED <<smu, connected, measurement_running, data_points, series_2400,
                 series_2600, data_format_set, model, reading, btnVars, resVars,
                 status_var, dialog, fgpc, fgcmds, afterq, stopTimers,
                 faultsLeft, startsLeft, connectsLeft, threads>>

SpecParse == InitParse /\ [][safe_parse_reading]_vars

\* The state after a clean connect to an instrument of identity m, with
\* starts start requests and faults transport errors still to come.
InitConnected(m, starts, faults) ==
  /\ smu = "open"
  /\ connected = TRUE
  /\ measurement_running = FALSE
  /\ data_points = <<>>
  /\ series_2400 = Is2400(m)
  /\ series_2600 = Is2600(m)
  /\ data_format_set = (Is2400(m) \/ Is2600(m))
  /\ model = m
  /\ reading = <<>>
  /\ parsed = <<>>
  /\ dc_output_btn = "Output Off"
  /\ data_tree = <<>>
  /\ res_wire_mode = "2-Wire"
  /\ res_current = DefaultTestCurrent
  /\ start_btn = [k \in Kinds |-> TRUE]
  /\ stop_btn = [k \in Kinds |-> FALSE]
  /\ connect_btn = FALSE
  /\ disconnect_btn = TRUE
  /\ status_var = "Instrument connected successfully"
  /\ dialog = "none"
  /\ fgpc = "idle"
  /\ fgcmds \in { <<Ent(Cmd("*IDN?", 0), "ok")>> \o o.log :
                    o \in {x \in ConfigureOutcomes(Is2400(m), Is2600(m)) : x.nf = 0} }
  /\ afterq = <<>>
  /\ stopTimers = 0
  /\ faultsLeft = faults
  /\ startsLeft = starts
  /\ connectsLeft = 0
  /\ threads = <<>>

\* One Loop run of any size up to MaxPoints points and MaxCycles cycles, with
\* the stop button, on each kind of instrument and a transport that does
\* not fail.
LoopGrid ==
  { [LoopBase EXCEPT !.points = n, !.cycles = c] :
      n \in 1..MaxPoints, c \in 1..MaxCycles }

InitLoop == \E m \in IdnStrings : InitConnected(m, 1, 0)

NextLoop ==
  \/ \E p \in LoopGrid : start_iv_loop(p)
  \/ stop_measurement
  \/ finalize_stop
  \/ run_callback
  \/ \E t \in 1..Len(threads) :
       \/ configure(t)
       \/ output_on(t)
       \/ loop_cycle(t)
       \/ loop_write(t)
       \/ loop_read(t)
       \/ teardown(t)

SpecLoop == InitLoop /\ [][NextLoop]_vars

\* Two Sweep runs started from the Sweep tab, with the stop button, on each
\* kind of instrument and a transport that may fail once.
InitRuns == \E m \in IdnStrings : InitConnected(m, 2, 1)

NextRuns ==
  \/ start_iv_sweep(SweepBase)
  \/ stop_measurement
  \/ finalize_stop
  \/ run_callback
  \/ \E t \in 1..Len(threads) :
       \/ configure(t)
       \/ output_on(t)
       \/ sweep_write(t)
       \/ sweep_read(t)
       \/ teardown(t)

SpecRuns == InitRuns /\ [][NextRuns]_vars

\* One run of the base request of each protocol, with the stop button, on each
\* kind of instrument and a transport that may fail.
InitFault == \E m \in IdnStrings : InitConnected(m, 1, MaxFaults)

NextFault ==
  \/ start_iv_sweep(SweepBase)
  \/ start_iv_loop(LoopBase)
  \/ start_retention_test(RetentionBase)
  \/ start_endurance_test(EnduranceBase)
  \/ stop_measurement
  \/ finalize_stop
  \/ run_callback
  \/ \E t \in 1..Len(threads) :
       \/ configure(t)
       \/ output_on(t)
       \/ sweep_write(t)
       \/ sweep_read(t)
       \/ loop_cycle(t)
       \/ loop_write(t)
       \/ loop_read(t)
       \/ ret_program(t)
       \/ ret_write(t)
       \/ ret_read(t)
       \/ ret_mid(t)
       \/ end_cycle(t)
       \/ end_write(t)
       \/ end_read(t)
       \/ teardown(t)

SpecFault == InitFault /\ [][NextFault]_vars

\* The Resistance tab of a connected session: single measurements in both
\* wire modes, on each kind of instrument and a transport that may fail, and
\* the disconnect button.
InitRes == \E m \in IdnStrings : InitConnected(m, 0, MaxFaults)

NextRes ==
  \/ \E mode \in WireModes, test_current \in TestCurrents :
       measure_resistance(mode, test_current)
  \/ disconnect_begin
  \/ disconnect_output_off
  \/ disconnect_close

SpecRes == InitRes /\ [][NextRes]_vars

\* The arming of one run: each protocol's base request and the fixed-range
\* and current-source variants of it, on each kind of instrument and a
\* transport that may fail.
RangeTexts == {"AUTO", "0.001", "0", "abc"}

ArmSweeps ==
  { [SweepBase EXCEPT !.current_range = r] : r \in RangeTexts }
  \cup { [SweepBase EXCEPT !.source_type = "Current"] }

ArmLoops == { LoopBase, [LoopBase EXCEPT !.current_range = "0.001"] }

InitArm == \E m \in IdnStrings : InitConnected(m, 1, MaxFaults)

NextArm ==
  \/ \E p \in ArmSweeps : start_iv_sweep(p)
  \/ \E p \in ArmLoops : start_iv_loop(p)
  \/ start_retention_test(RetentionBase)
  \/ start_endurance_test(EnduranceBase)
  \/ run_callback
  \/ \E t \in 1..Len(threads) :
       \/ configure(t)
       \/ teardown(t)

SpecArm == InitArm /\ [][NextArm]_vars

\* One Endurance run of up to MaxCycles cycles, with the stop button, on each
\* kind of instrument and a transport that does not fail.
EnduranceGrid == { [EnduranceBase EXCEPT !.cycles = c] : c \in 1..MaxCycles }

InitEndurance == \E m \in IdnStrings : InitConnected(m, 1, 0)

NextEndurance ==
  \/ \E p \in EnduranceGrid : start_endurance_test(p)
  \/ stop_measurement
  \/ finalize_stop
  \/ run_callback
  \/ \E t \in 1..Len(threads) :
       \/ configure(t)
       \/ output_on(t)
       \/ end_cycle(t)
       \/ end_write(t)
       \/ end_read(t)
       \/ teardown(t)

SpecEndurance == InitEndurance /\ [][NextEndurance]_vars

\* One Retention run of each accepted duration and interval, with the stop
\* button, on each kind of instrument and a transport that may fail.
RetentionGrid == { p \in RetentionInputs : RetentionError(p) = "ok" }

InitRetention == \E m \in IdnStrings : InitConnected(m, 1, MaxFaults)

NextRetention ==
  \/ \E p \in RetentionGrid : start_retention_test(p)
  \/ stop_measurement
  \/ finalize_stop
  \/ run_callback
  \/ \E t \in 1..Len(threads) :
       \/ configure(t)
       \/ output_on(t)
       \/ ret_program(t)
       \/ ret_write(t)
       \/ ret_read(t)
       \/ ret_progress_raises(t)
       \/ ret_mid(t)
       \/ teardown(t)

SpecRetention == InitRetention /\ [][NextRetention]_vars

\* The connection panel and the DC bias tab: connects, disconnects and
\* foreground output control, on each kind of instrument and a transport that
\* may fail.
NextSession ==
  \/ connect_instrument
  \/ \E p \in DcInputs : apply_dc_bias(p)
  \/ toggle_output
  \/ disconnect_begin
  \/ disconnect_output_off
  \/ disconnect_close

SpecSession == Init /\ [][NextSession]_vars

\* ---------------------------------------------------------- properties
Threads == 1..Len(threads)
TeardownLog(th) == SubSeq(th.log, th.td + 1, Len(th.log))
IsZero(e) == e.c \in {":SOUR:VOLT:LEV", ":SOUR:CURR:LEV"} /\ e.v = 0
IsLevel(e) == e.c \in {":SOUR:VOLT:LEV", ":SOUR:CURR:LEV"}
IsOff(e) == e.c = ":OUTP OFF"
IsOn(e) == e.c = ":OUTP ON"
IsRead(e) == e.c = ":READ?"

\* C1: when a run has posted its terminal status and the transport accepted
\* its teardown writes, the teardown was a source-level-zero write followed
\* by an output-off write.
C1_TeardownZeroThenOff ==
  \A t \in Threads :
    LET th == threads[t]
        td == TeardownLog(th)
    IN  (th.pc = "ended" /\ Len(td) > 0 /\ \A i \in 1..Len(td) : td[i].r = "ok")
        => (Len(td) = 2 /\ IsZero(td[1]) /\ IsOff(td[2]))

\* C2: in the teardown of a finished run, a source-level-zero write that
\* failed is still followed by an output-off write.
C2_OffAfterFailedZero ==
  \A t \in Threads :
    LET th == threads[t]
        td == TeardownLog(th)
    IN  (th.pc = "ended" /\ Len(td) >= 1 /\ IsZero(td[1]) /\ td[1].r = "err")
        => (Len(td) >= 2 /\ IsOff(td[2]))

\* C3: at most one background path has not yet reached its terminal state.
Active(th) == th.pc \notin {"ended", "done"}

C3_AtMostOneRun == Cardinality({t \in Threads : Active(threads[t])}) <= 1

\* C4: the cancellation flag is checked before every step: while the flag
\* is cleared, a run standing at a step boundary issues no command of a
\* further step, the boundary between the SET sample and the RESET sample
\* of an Endurance cycle included.
AtStepBoundary(th) ==
  \/ th.pc \in {"sweep_w", "loop_w", "ret_w", "end_cycle"}
  \/ th.pc = "end_w" /\ th.seg = 2

C4_FlagCheckedBeforeEveryStep ==
  [][\A t \in Threads :
       (AtStepBoundary(threads[t]) /\ ~measurement_running)
       => Len(threads'[t].log) = Len(threads[t].log)]_vars

\* A start request that the handler turns down leaves the run state, the
\* record stream, the session and the background paths as they were and
\* sends nothing to the instrument.
Rejected ==
  /\ UNCHANGED <<measurement_running, data_points, threads, afterq, smu,
                 connected, start_btn, stop_btn>>
  /\ fgcmds' = <<>>

OverLimit(p) ==
  \/ p.cycles > 100000
  \/ Abs(p.vset) > Volt(20)
  \/ Abs(p.vreset) > Volt(20)

\* C5: an Endurance start request with more than 100000 cycles, or with a
\* SET or RESET voltage above 20 V in magnitude, is rejected: the run-state
\* flag and the record stream are unchanged, no background path is started
\* and no command is sent to the instrument.
C5_EnduranceLimitsRejected ==
  [][\A p \in EnduranceInputs :
       (OverLimit(p) /\ start_endurance_test(p)) => Rejected]_vars

C5_Witness ==
  /\ connected
  /\ dialog \in {"Too many cycles - limit to 100,000 for safety",
                 "Voltages should be reasonable (< 20V)"}
  /\ threads = <<>>
  /\ fgcmds = <<>>

\* C6: a start request of a Sweep, Loop, Retention or Endurance run with
\* points < 1, cycles < 1, a negative delay or compliance <= 0 is rejected
\* inside the start handler: no command is sent, no background path is
\* started, and the run state and the record stream are unchanged.
C6_InvalidParametersRejected ==
  [][/\ \A p \in SweepInputs :
          ((p.points < 1 \/ p.delay < 0 \/ p.compliance <= 0) /\ start_iv_sweep(p))
          => Rejected
     /\ \A p \in LoopInputs :
          ((p.points < 1 \/ p.cycles < 1 \/ p.delay < 0 \/ p.compliance <= 0)
           /\ start_iv_loop(p))
          => Rejected
     /\ \A p \in RetentionInputs :
          ((p.interval < 0 \/ p.duration < 0 \/ p.compliance <= 0)
           /\ start_retention_test(p))
          => Rejected
     /\ \A p \in EnduranceInputs :
          ((p.cycles < 1 \/ p.pulse_width < 0 \/ p.compliance <= 0)
           /\ start_endurance_test(p))
          => Rejected]_vars

C6_Witness ==
  /\ connected
  /\ dialog \in {"Points must be greater than 0", "Delay must be non-negative",
                 "Number of cycles must be greater than 0",
                 "Compliance must be greater than 0"}
  /\ ~measurement_running
  /\ threads = <<>>

\* A write of the arming sequence failed: the run's first failed command
\* precedes every output-on and is not the output-on itself.
ArmingFailed(th) ==
  \E i \in 1..Len(th.log) :
    /\ th.log[i].r # "ok"
    /\ \A j \in 1..i : ~IsOn(th.log[j])

\* C7: a run whose arming sequence had a failing write never issues
\* output-on: it is in or past its teardown with the fault captured, has
\* sent no step command and has appended no record.
C7_ArmingFailureSkipsOutputOn ==
  \A t \in Threads :
    LET th == threads[t]
        body == IF th.pc = "ended" THEN SubSeq(th.log, 1, th.td) ELSE th.log
    IN  ArmingFailed(th) =>
          /\ th.pc \in {"teardown", "ended"}
          /\ th.err # "none"
          /\ \A i \in 1..Len(th.log) : ~IsOn(th.log[i]) /\ ~IsRead(th.log[i])
          /\ \A i \in 1..Len(body) : ~IsLevel(body[i])
          /\ th.nrec = 0

C7_Witness ==
  \E t \in Threads :
    /\ ArmingFailed(threads[t])
    /\ threads[t].pc = "ended"
    /\ threads[t].td > 1

\* The place of a command in the arming sequence.
Phase(e) ==
  CASE e.c \in {":SOUR:FUNC VOLT", ":SOUR:FUNC CURR"} -> 1
    [] e.c \in {":SOUR:VOLT:ILIM", ":SOUR:CURR:VLIM", "smua.source.limiti"} -> 2
    [] e.c \in {":SENS:CURR:RANG:AUTO ON", ":SENS:CURR:RANG:AUTO OFF",
                ":SENS:CURR:RANG:UPP", ":SENS:CURR:RANG", "smua.measure.rangei",
                "smua.measure.autorangei = smua.AUTORANGE_ON"} -> 3
    [] e.c = ":SENS:CURR:PROT" -> 4
    [] e.c \in {":SENS:FUNC 'CURR'", ":SENS:FUNC 'VOLT'"} -> 5
    [] OTHER -> 6

\* C8: a run that is about to switch the output on has sent, in this
\* order, the source function, the compliance, the range, the protection
\* level where the dialect has one, and the measurement function, and
\* nothing else.
C8_ArmingOrder ==
  \A t \in Threads :
    LET th == threads[t] IN
    th.pc = "on" =>
      /\ \A i \in 1..Len(th.log) : Phase(th.log[i]) <= 5
      /\ \A i \in 1..(Len(th.log) - 1) : Phase(th.log[i]) <= Phase(th.log[i + 1])
      /\ \A ph \in {1, 2, 3, 5} : \E i \in 1..Len(th.log) : Phase(th.log[i]) = ph

\* C9: when the disconnect handler returns, the session is not connected
\* and the transport is closed, whether or not the output-off write failed.
C9_DisconnectAlwaysCloses ==
  [][(fgpc \in {"disc_sleep1", "disc_sleep2"} /\ fgpc' = "idle")
     => (~connected' /\ smu' = "none")]_vars

\* C10: a run that has switched the output on sends no write and no query
\* to a transport that the disconnect handler has already closed.
C10_NoBackgroundIoAfterClose ==
  \A t \in Threads :
    LET th == threads[t] IN
    \A i \in 1..Len(th.log) :
      (\E j \in 1..(i - 1) : IsOn(th.log[j]) /\ th.log[j].r = "ok")
      => th.log[i].r # "nohandle"

\* C11: while a run's background path is active, from its arming until its
\* teardown has finished, no foreground handler sends a command to the
\* instrument.
C11_NoForegroundWriteDuringRun ==
  [][(\E t \in Threads : Active(threads[t]))
     => (fgcmds' = fgcmds \/ fgcmds' = <<>>)]_vars

\* C12: the status shown once a run is over is the completed status only
\* if the run took all its steps: it was neither cancelled nor ended by an
\* error.
C12_CompletedOnlyIfAllStepsRan ==
  \A t \in Threads :
    (threads[t].pc = "done" /\ status_var = "Measurement completed")
    => (threads[t].err = "none" /\ ~threads[t].cancelled)

\* C13: once the identity string is resolved, a string that contains a
\* 2600-family model token is not treated as Family2400, and a string that
\* contains a 2400-family model token is not treated as Family2600.
C13_DialectExclusive ==
  fgpc = "identified" =>
    /\ (model \cap Tokens2600 # {} => Dialect(series_2400, series_2600) # "Family2400")
    /\ (model \cap Tokens2400 # {} => Dialect(series_2400, series_2600) # "Family2600")

\* C14: a reply is rejected with a parse error only if its first field
\* cannot be coerced to a number, whatever the dialect and whether or not
\* the fixed reply format was negotiated.
C14_ParseFailsOnlyOnFirstField ==
  (Len(parsed) = 1 /\ ~parsed[1].ok) => ~reading[1].num

MinOf(S) == CHOOSE x \in S : \A y \in S : x <= y

\* C15: outside the fixed reply format the parser returns the first two
\* values that coerce among the first four fields when at least two of
\* them coerce, and otherwise the first field alone, coerced, as both
\* voltage and current.
C15_HeuristicParse ==
  LET n == IF Len(reading) < 4 THEN Len(reading) ELSE 4
      idx == {k \in 1..n : reading[k].num}
      a == MinOf(idx)
      b == MinOf(idx \ {a})
  IN  (Len(parsed) = 1 /\ ~(data_format_set /\ series_2400 /\ Len(reading) >= 2))
      => parsed[1] =
           IF Cardinality(idx) >= 2 THEN ParseOk(reading[a].val, reading[b].val)
           ELSE IF reading[1].num THEN ParseOk(reading[1].val, reading[1].val)
           ELSE ParseFail

C15_Witness ==
  /\ ~data_format_set
  /\ Len(reading) = 5
  /\ ~reading[1].num /\ reading[5].num
  /\ parsed = <<ParseOk(2, 4)>>

\* A run that took all its steps and has posted its completion.
Completed(th) == th.pc = "ended" /\ th.err = "none" /\ ~th.cancelled

\* C16: a voltage Sweep of n points that completes leaves exactly n
\* records, in step order, the voltage of the i-th being the i-th commanded
\* value of the evenly spaced sequence from start to stop, each with cycle
\* index 1 and state label "Sweep".
C16_SweepRecords ==
  \A t \in Threads :
    LET th == threads[t] IN
    (Completed(th) /\ th.kind = "Sweep" /\ th.p.source_type = "Voltage")
    => /\ Len(data_points) = th.p.points
       /\ \A i \in 1..Len(data_points) :
            /\ data_points[i].voltage = Linspace(SweepStart, SweepStop, th.p.points, i)
            /\ data_points[i].cycle = 1
            /\ data_points[i].state = "Sweep"

\* C17: a Loop of p points and c cycles that completes, alone in its
\* session, leaves exactly c * (3p + 1) records: in each cycle p records of
\* the first segment tag, p of the second, p of the third and one closing
\* record of the fourth tag at voltage 0, the records of the j-th cycle
\* carrying cycle index j.
C17_LoopRecords ==
  \A t \in Threads :
    LET th == threads[t]
        p == th.p.points
        per == 3 * p + 1
    IN  (Completed(th) /\ th.kind = "Loop" /\ Len(threads) = 1)
        => /\ Len(data_points) = th.p.cycles * per
           /\ \A k \in 1..Len(data_points) :
                LET r == (k - 1) % per
                    seg == IF r < 3 * p THEN (r \div p) + 1 ELSE 4
                IN  /\ data_points[k].cycle = ((k - 1) \div per) + 1
                    /\ data_points[k].state = segment_names[seg]
                    /\ seg = 4 => data_points[k].voltage = 0

C17_Witness ==
  \E t \in Threads :
    /\ Completed(threads[t])
    /\ threads[t].kind = "Loop"
    /\ threads[t].p.points = 2
    /\ threads[t].p.cycles = 2
    /\ Len(data_points) = 14
    /\ data_points[8].cycle = 2

\* C18: every progress value a run emits lies in [0, 100], and the values
\* a run emits never decrease.
C18_ProgressBounded ==
  \A t \in Threads :
    LET pr == threads[t].prog IN
    \A k \in 1..Len(pr) :
      /\ 0 <= pr[k].num
      /\ pr[k].num <= 100 * pr[k].den
      /\ k > 1 => pr[k - 1].num * pr[k].den <= pr[k].num * pr[k - 1].den


\* C19: once a run has reached a terminal state, the record stream holds no
\* record of an earlier run.
C19_NoRecordOfEarlierRun ==
  \A t \in Threads :
    ~Active(threads[t])
    => \A k \in 1..Len(data_points) : data_points[k].run >= t


\* The part of a run's command log that precedes its finally block
Body(th) == IF th.pc = "ended" THEN SubSeq(th.log, 1, th.td) ELSE th.log

\* The entries of a run's log after its successful :OUTP ON
InStepLoop(th, j) ==
  \E k \in 1..(j - 1) : IsOn(Body(th)[k]) /\ Body(th)[k].r = "ok"

OkReads(th) ==
  Cardinality({ j \in 1..Len(Body(th)) : IsRead(Body(th)[j]) /\ Body(th)[j].r = "ok" })

\* C20: a write or query that fails in the step loop, or a reply that does
\* not parse, is the last exchange of the run before its teardown: the run
\* is marked with the error, nothing is retried, no set-level or read
\* command follows other than the teardown commands, and the failing step
\* stores no record.
C20_StepFailureEndsRun ==
  \A t \in Threads :
    LET th == threads[t]
        body == Body(th)
    IN  th.pc # "done" =>
          /\ \A j \in 1..Len(body) :
               (InStepLoop(th, j) /\ body[j].r # "ok") =>
                 /\ j = Len(body)
                 /\ th.pc \in {"teardown", "ended"}
                 /\ th.err \in {"write", "query"}
                 /\ OkReads(th) = th.nrec
          /\ OkReads(th) \in {th.nrec, th.nrec + 1}
          /\ OkReads(th) = th.nrec + 1 =>
               /\ th.err = "parse"
               /\ th.pc \in {"teardown", "ended"}
               /\ IsRead(body[Len(body)])
          /\ th.pc = "ended" =>
               /\ Len(TeardownLog(th)) <= Len(TeardownCmds(th.kind))
               /\ \A j \in 1..Len(TeardownLog(th)) :
                    Cmd(TeardownLog(th)[j].c, TeardownLog(th)[j].v)
                      = TeardownCmds(th.kind)[j]

\* a run that failed in its step loop after storing a record, and has ended
C20_Witness ==
  \E t \in Threads :
    LET th == threads[t] IN
    /\ th.pc = "ended"
    /\ th.err \in {"write", "query", "parse"}
    /\ th.nrec > 0
    /\ \E k \in 1..th.td : IsOn(th.log[k]) /\ th.log[k].r = "ok"


IsFormat(e) == e.c \in {":FORM:ELEM VOLT,CURR,TIME", "format.data = format.ASCII"}

\* The command log of a connect whose identity query was answered
AfterConnect == Len(fgcmds) > 0 /\ fgcmds[1].c = "*IDN?" /\ fgcmds[1].r = "ok"

\* C21: after a connect, data_format_set is true only if the format
\* command was written successfully in that connect's configuration and no
\* step of that configuration failed (the clear-errors block, whose failure
\* is discarded, aside).
C21_FormatFlagOnlyAfterCleanConfigure ==
  (AfterConnect /\ data_format_set) =>
    /\ \E j \in 1..Len(fgcmds) : IsFormat(fgcmds[j]) /\ fgcmds[j].r = "ok"
    /\ \A j \in 1..Len(fgcmds) :
         fgcmds[j].c \notin {"*CLS", ":SYST:CLE"} => fgcmds[j].r = "ok"


\* C22: every resistance value that a run stores or that the single
\* measurement shows is either +infinity or a non-negative ratio over a
\* current above the threshold; the single measurement shows |V/I| of its
\* measured voltage and test current, and +infinity when the current is not
\* above the threshold.
C22_ResistanceIsAbsRatio ==
  /\ \A k \in 1..Len(data_points) :
       LET r == data_points[k].resistance IN
       ~r.inf => (r.num >= 0 /\ r.den > Threshold)
  /\ \A k \in 1..Len(data_tree) :
       LET r == data_tree[k].resistance
           e == Resistance(data_tree[k].measured, data_tree[k].voltage)
       IN  /\ r.inf = e.inf
           /\ ~r.inf => /\ Abs(r.num) = e.num
                         /\ Abs(r.den) = e.den
                         /\ (r.num = 0 \/ ((r.num > 0) = (r.den > 0)))


\* A run that has completed _set_current_compliance_and_range
Armed(th) == th.pc = "on" /\ UsesArm(th)

IsAutoOn(e) ==
  e.c \in {":SENS:CURR:RANG:AUTO ON", "smua.measure.autorangei = smua.AUTORANGE_ON"}
IsAutoOff(e) == e.c = ":SENS:CURR:RANG:AUTO OFF"
IsRangeSet(e) == e.c \in {":SENS:CURR:RANG", "smua.measure.rangei"}
IsHint(e) == e.c = ":SENS:CURR:RANG:UPP"
IsProt(e) == e.c = ":SENS:CURR:PROT"

\* C23: a run armed in range mode Auto has sent the auto-range enable and,
\* after it, the upper-bound hint max(compliance * 1.2, 1e-9).
C23_AutoRangeHasHint ==
  \A t \in Threads :
    LET th == threads[t] IN
    (Armed(th) /\ ArmRange(th) = "AUTO") =>
      \E j \in 1..Len(th.log) :
        /\ IsAutoOn(th.log[j])
        /\ \E k \in (j + 1)..Len(th.log) :
             /\ IsHint(th.log[k])
             /\ th.log[k].v = Max((th.p.compliance * 6) \div 5, RangeFloor)

\* C24: a run armed with a fixed range has sent the auto-range disable and
\* the explicit range value, and no auto-range enable.
C24_FixedRangeDisablesAuto ==
  \A t \in Threads :
    LET th == threads[t] IN
    (Armed(th) /\ ArmRange(th) # "AUTO") =>
      /\ \E j \in 1..Len(th.log) : IsAutoOff(th.log[j])
      /\ \E j \in 1..Len(th.log) :
           IsRangeSet(th.log[j]) /\ th.log[j].v = RangeValue(ArmRange(th))
      /\ \A j \in 1..Len(th.log) : ~IsAutoOn(th.log[j])

C26_BadRangeRejected ==
  \A t \in Threads :
    LET r == ArmRange(threads[t]) IN
    (UsesArm(threads[t]) /\ r # "AUTO") => (IsNumber(r) /\ RangeValue(r) > 0)


\* The commands of a run's step loop: its log between the :OUTP ON and the
\* finally block
StepLog(th) ==
  LET body == Body(th)
      on == CHOOSE j \in 1..Len(body) : IsOn(body[j])
  IN  SubSeq(body, on + 1, Len(body))

\* The k-th command of the step loop of an Endurance run
EnduranceStep(p, k) ==
  CASE (k - 1) % 6 = 0 -> Cmd(":SOUR:VOLT:LEV", p.vset)
    [] (k - 1) % 6 = 3 -> Cmd(":SOUR:VOLT:LEV", p.vreset)
    [] (k - 1) % 6 \in {1, 4} -> Cmd(":SOUR:VOLT:LEV", Vread)
    [] OTHER -> Cmd(":READ?", 0)

\* C27: an Endurance run of c cycles that completes has issued, cycle by
\* cycle, level Vset, level Vread, read, level Vreset, level Vread, read, and
\* has stored 2c records, SET then RESET of each cycle, the records of the
\* j-th cycle with cycle index j and the programmed voltage.
C27_EnduranceCycles ==
  \A t \in Threads :
    LET th == threads[t] IN
    (Completed(th) /\ th.kind = "Endurance" /\ Len(threads) = 1) =>
      /\ Len(StepLog(th)) = 6 * th.p.cycles
      /\ \A k \in 1..Len(StepLog(th)) :
           Cmd(StepLog(th)[k].c, StepLog(th)[k].v) = EnduranceStep(th.p, k)
      /\ Len(data_points) = 2 * th.p.cycles
      /\ \A k \in 1..Len(data_points) :
           /\ data_points[k].cycle = (k + 1) \div 2
           /\ data_points[k].state = IF k % 2 = 1 THEN "SET" ELSE "RESET"
           /\ data_points[k].voltage = IF k % 2 = 1 THEN th.p.vset ELSE th.p.vreset

C27_Witness ==
  \E t \in Threads :
    /\ Completed(threads[t])
    /\ threads[t].kind = "Endurance"
    /\ threads[t].p.cycles = 2
    /\ Len(data_points) = 4
    /\ data_points[4].cycle = 2


\* Places in the step loop of a Retention run: the programming writes, the
\* samples, and the samples taken before the RESET state was programmed
ProgramsAt(th, v) ==
  { j \in 1..Len(StepLog(th)) : IsLevel(StepLog(th)[j]) /\ StepLog(th)[j].v = v }
SamplesAt(th) == { j \in 1..Len(StepLog(th)) : IsRead(StepLog(th)[j]) }
Phase1Samples(th) ==
  { j \in SamplesAt(th) : \A r \in ProgramsAt(th, RetVreset) : j < r }

\* C28: in a Retention run the SET state is programmed at most once and
\* before every sample, the RESET state at most once and after the SET
\* state; a run that completes has programmed each exactly once; every
\* sample directly follows a successful level-Vread write; and the stream of
\* a run holds its phase-1 records, one per phase-1 sample, before its
\* phase-2 records.
C28_RetentionPhases ==
  \A t \in Threads :
    LET th == threads[t]
        log == StepLog(th)
    IN
    (th.kind = "Retention" /\ th.pc \notin {"arm", "on", "done"}
       /\ \E j \in 1..Len(Body(th)) : IsOn(Body(th)[j])) =>
      /\ Cardinality(ProgramsAt(th, RetVset)) <= 1
      /\ Cardinality(ProgramsAt(th, RetVreset)) <= 1
      /\ Completed(th) => /\ Cardinality(ProgramsAt(th, RetVset)) = 1
                          /\ Cardinality(ProgramsAt(th, RetVreset)) = 1
      /\ \A r \in ProgramsAt(th, RetVreset) :
           \E s \in ProgramsAt(th, RetVset) : s < r
      /\ \A j \in SamplesAt(th) :
           /\ \E s \in ProgramsAt(th, RetVset) : s < j
           /\ j > 1
           /\ log[j - 1] = Ent(Cmd(":SOUR:VOLT:LEV", Vread), "ok")
      /\ Len(threads) = 1 =>
           \A k \in 1..Len(data_points) :
             LET first == k <= Cardinality({ j \in Phase1Samples(th) : log[j].r = "ok" })
             IN  /\ data_points[k].state = IF first THEN "SET_retention"
                                           ELSE "RESET_retention"
                 /\ data_points[k].cycle = IF first THEN 1 ELSE 2

\* a completed run with two samples in each phase
C28_Witness ==
  \E t \in Threads :
    /\ Completed(threads[t])
    /\ threads[t].kind = "Retention"
    /\ Cardinality(Phase1Samples(threads[t])) = 2
    /\ Cardinality(SamplesAt(threads[t])) = 4
    /\ Len(data_points) = 4


\* C29: an Endurance start request with pulse width 0 and every other
\* parameter valid, made in a connected session, starts a run.
C29_ZeroPulseWidthAccepted ==
  [][\A p \in EnduranceInputs :
       (/\ p.pulse_width = 0
        /\ p.compliance > 0
        /\ p.cycles >= 1
        /\ ~OverLimit(p)
        /\ connected
        /\ start_endurance_test(p))
       => (measurement_running' /\ Len(threads') = Len(threads) + 1)]_vars


IsRemoteSense(e) == e.c \in {":SENS:REM ON", ":SENS:REM OFF"}

\* measure_resistance has returned in a connected session of the Resistance
\* tab: fgcmds is its command log and res_wire_mode the mode it passed to
\* _set_wire_mode
AfterMeasure == fgpc = "idle" /\ dialog \in {"Resistance Measurement", "Error"}

\* C30: _set_wire_mode sends remote-sense on for 4-Wire and remote-sense off
\* for 2-Wire on a 2400-family instrument and nothing on any other, and it
\* returns to its caller whether or not the write failed: the caller's next
\* command follows.
C30_WireModeNeverRaises ==
  AfterMeasure =>
    LET n == IF series_2400 THEN 1 ELSE 0 IN
    /\ series_2400 =>
         /\ Len(fgcmds) >= 1
         /\ fgcmds[1].c = IF res_wire_mode = "4-Wire" THEN ":SENS:REM ON"
                          ELSE ":SENS:REM OFF"
    /\ \A j \in (n + 1)..Len(fgcmds) : ~IsRemoteSense(fgcmds[j])
    /\ Len(fgcmds) > n
    /\ fgcmds[n + 1].c = ":SOUR:FUNC CURR"

\* the remote-sense write failed and the measurement was still shown
C30_Witness ==
  /\ AfterMeasure
  /\ series_2400
  /\ res_wire_mode = "4-Wire"
  /\ fgcmds[1] = Ent(Cmd(":SENS:REM ON", 0), "err")
  /\ dialog = "Resistance Measurement"


\* C31: connect_instrument returns with the session connected exactly when
\* the transport opened and the identity query was answered, whatever the
\* configuration commands did, and it sends no :OUTP ON.
C31_ConnectedIffIdentified ==
  [][connect_instrument =>
       /\ connected' = (Len(fgcmds') > 0 /\ fgcmds'[1] = Ent(Cmd("*IDN?", 0), "ok"))
       /\ dialog' = "Configuration Warning" => connected'
       /\ dialog' = "Connection Error" => ~connected'
       /\ \A j \in 1..Len(fgcmds') : ~IsOn(fgcmds'[j])]_vars

\* a connect whose configuration failed
C31_Witness ==
  /\ AfterConnect
  /\ connected
  /\ dialog = "Configuration Warning"
  /\ \E j \in 1..Len(fgcmds) : fgcmds[j].r = "err"


\* The status texts that report the end of a run
TerminalStatus == {"Measurement completed", "Measurement stopped by user"}

\* C32: in a session with one run, a status that reports the end of the run
\* is not followed by another one: the run is reported ended once.
C32_OneTerminalNotification ==
  [][(status_var \in TerminalStatus) =>
       (status_var' = status_var \/ status_var' \notin TerminalStatus)]_vars


\* The places where a run reads measurement_running
AtFlagCheck(th) ==
  th.pc \in {"sweep_w", "loop_cycle", "loop_w", "ret_w", "ret_mid", "end_cycle"}

\* C33: a run for which stop was requested issues no further command of its
\* step loop from a place where it reads the flag, whatever the foreground
\* has done since.
C33_CancelledRunStops ==
  [][\A t \in Threads :
       (threads[t].stopreq /\ AtFlagCheck(threads[t]))
       => Len(threads'[t].log) = Len(threads[t].log)]_vars

\* C34: a run for which no stop was requested and in which nothing failed
\* ends without having seen the flag cleared: it was not cut short.
C34_UncancelledRunFinishes ==
  \A t \in Threads :
    (threads[t].pc = "ended" /\ ~threads[t].stopreq /\ threads[t].err = "none")
    => ~threads[t].cancelled


\* C36: a Retention run that was not cancelled and in which every write and
\* query succeeded and every reply parsed does not end with a fault.
C36_RetentionNeverFaults ==
  \A t \in Threads :
    LET th == threads[t] IN
    (/\ th.kind = "Retention"
     /\ th.pc # "done"
     /\ RetentionError(th.p) = "ok"
     /\ ~th.stopreq
     /\ ~th.cancelled
     /\ \A j \in 1..Len(th.log) : th.log[j].r = "ok"
     /\ th.err # "parse")
    => th.err = "none"


\* The Resistance tab with a transport that may fail twice in one
\* measurement: in the try block and again in the finally block.
InitResFaults == \E m \in IdnStrings : InitConnected(m, 0, 2)

SpecResFaults == InitResFaults /\ [][NextRes]_vars

\* C39: once measure_resistance has issued :OUTP ON, it returns to the main
\* loop with a result or an error box, and the last command it sent is an
\* :OUTP OFF written after whatever failed: the :OUTP ON itself, the read
\* query, or the parse of the reply; this also when that last write fails.
C39_OutputOffOnEveryExit ==
  (AfterMeasure /\ \E j \in 1..Len(fgcmds) : IsOn(fgcmds[j])) =>
    LET on == CHOOSE j \in 1..Len(fgcmds) : IsOn(fgcmds[j])
        n == Len(fgcmds)
    IN
    /\ n > on
    /\ IsOff(fgcmds[n])
    /\ \A j \in (on + 1)..n : IsRead(fgcmds[j]) \/ IsOff(fgcmds[j])
    /\ \A j \in (on + 1)..n :
         (IsRead(fgcmds[j]) /\ fgcmds[j].r # "ok") =>
           (j + 1 = n /\ dialog = "Error")
    /\ dialog = "Error" =>
         \E j \in 1..(n - 1) : fgcmds[j].r # "ok" \/ (IsRead(fgcmds[j]) /\ j + 1 = n)

\* the read query failed, and so did the :OUTP OFF of the finally block
C39_Witness ==
  /\ AfterMeasure
  /\ dialog = "Error"
  /\ Len(fgcmds) >= 2
  /\ fgcmds[Len(fgcmds) - 1] = Ent(Cmd(":READ?", 0), "err")
  /\ fgcmds[Len(fgcmds)] = Ent(Cmd(":OUTP OFF", 0), "err")


\* A Retention run that has left the phase-1 loop on seeing the flag cleared
CancelledInPhase1(th) ==
  /\ th.kind = "Retention"
  /\ th.cancelled
  /\ th.seg = 1
  /\ th.pc \in {"ret_mid", "teardown"}

\* C38: once a Retention run has seen the cancellation in phase 1, it stays
\* out of phase 2: the only commands it sends from then on are those of its
\* teardown, the RESET state has not been and is not programmed, and no
\* record is appended.
C38_CancelledInPhase1SkipsPhase2 ==
  [][\A t \in Threads :
       CancelledInPhase1(threads[t]) =>
         LET th == threads[t]
             nx == threads'[t]
         IN
         /\ ProgramsAt(th, RetVreset) = {}
         /\ nx.seg = 1
         /\ nx.pc \in {"ret_mid", "teardown", "ended"}
         /\ \A j \in (Len(th.log) + 1)..Len(nx.log) :
              /\ nx.pc = "ended"
              /\ j > nx.td
              /\ IsZero(nx.log[j]) \/ IsOff(nx.log[j])
         /\ Len(data_points') <= Len(data_points)]_vars

\* a run cancelled after its first phase-1 sample has ended: one record, the
\* teardown sent, and no RESET programming
C38_Witness ==
  \E t \in Threads :
    LET th == threads[t] IN
    /\ th.kind = "Retention"
    /\ th.pc = "ended"
    /\ th.cancelled
    /\ th.seg = 1
    /\ th.err = "none"
    /\ Cardinality(SamplesAt(th)) = 1
    /\ ProgramsAt(th, RetVreset) = {}
    /\ Len(TeardownLog(th)) = 2
    /\ Len(data_points) = 1


\* A run that has written the source level of a step and has its read query
\* still to send
AwaitingRead(th) == th.pc \in {"sweep_q", "loop_q", "ret_q", "end_q"}

\* C37: no :OUTP OFF from the foreground reaches the instrument while a run
\* is inside a step, between the step's set-level write and its read query.
C37_NoOutputOffInsideRun ==
  [][(/\ fgcmds' # fgcmds
      /\ \E j \in 1..Len(fgcmds') : IsOff(fgcmds'[j]) /\ fgcmds'[j].r = "ok")
     => \A t \in Threads : ~AwaitingRead(threads[t])]_vars


\* The records of run t in the stream, in append order
RecordsOf(t) == SelectSeq(data_points, LAMBDA r : r.run = t)

\* C35: when a run has ended, the per-record events it queued are its
\* records: one event for each record, in append order, with the same
\* voltage, current, resistance, cycle and state.
C35_OneEventPerRecord ==
  \A t \in Threads :
    threads[t].pc = "ended" => threads[t].events = RecordsOf(t)

====
